---- MODULE Spec2Model ----
(***************************************************************************)
(* A model of the learner record of the German daily-word bot:             *)
(*   - the spaced-repetition schedule kept by UserProgress                 *)
(*     (src/user_progress.py), and                                         *)
(*   - the streak bookkeeping of StreakManager (src/streak_manager.py).    *)
(*                                                                         *)
(* Time.  The wall clock `now` counts ticks; one day is TicksPerDay ticks. *)
(* A datetime and its isoformat() string denote the same instant, so a     *)
(* stored timestamp is modelled by its tick count.  Lesson dates           *)
(* ('%Y-%m-%d' strings) are modelled by their day ordinal, so that         *)
(* (current_date - last_date).days is the difference of two ordinals;      *)
(* None is NoDate.                                                         *)
(***************************************************************************)
EXTENDS Integers, Sequences, FiniteSets, TLC

VARIABLES
    now,                      \* the wall clock read by datetime.now(), in ticks
    \* ---- UserProgress.data: vocabulary and schedule ----
    words_by_level,           \* level -> list of learned word ids ('learned')
    total_words_learned,
    spaced_repetition,        \* dict: word id -> ReviewState
    \* ---- UserProgress.data: streak fields ----
    daily_streak,
    longest_streak,
    total_study_days,
    streak_milestones,        \* list of thresholds already awarded
    last_lesson_date,         \* day ordinal, or NoDate
    streak_freeze_used,
    streak_freeze_available,
    grace_period_active,
    grace_period_expires,     \* a timestamp, or NoTime
    achievements,             \* list of Achievement records
    \* ---- results and history (not fields of the record) ----
    streak_info,              \* the dict returned by the last update_streak call
    streak_pre,               \* history: the streak fields as that call found them
    grace_uses,               \* history: number of grace continuations so far
    review_history,           \* history: word id -> outcomes recorded since scheduling
    \* ---- outside the record in memory ----
    disk,                     \* the persisted learner document progress_<chat_id>.json
    outbox,                   \* the messages the transport accepted, in order
    last_call,                \* history: what the last entry point was called with and found
    retention_rates,          \* analytics_data['retention_rates']: word id -> test counters
    \* ---- entry points running side by side ----
    inv,                      \* invocation -> its position and its UserProgress.data
    \* ---- the splitting senders ----
    posted,                   \* the chunks the last send_message passed to the transport
    \* ---- the user registry ----
    active_users              \* active_users.json: the user records in insertion order

sr_vars == <<now, words_by_level, total_words_learned, spaced_repetition, review_history>>

streak_vars == <<daily_streak, longest_streak, total_study_days, streak_milestones,
                 last_lesson_date, streak_freeze_used, streak_freeze_available,
                 grace_period_active, grace_period_expires, achievements,
                 streak_info, streak_pre, grace_uses>>

\* what the entry points on one document leave alone
rest_vars == <<posted, active_users>>

env_vars == <<inv, rest_vars>>

io_vars == <<disk, outbox, last_call, retention_rates, env_vars>>

vars == <<sr_vars, streak_vars, io_vars>>

----------------------------------------------------------------------------
(* Bounds of the model *)

\* the clock stops at MaxNow ticks
MaxNow == 3
\* ticks per day: the resolution of the modelled clock
TicksPerDay == 2
\* at most MaxReviews outcomes are recorded, over all words
MaxReviews == 6
\* lesson dates are the day ordinals 1..MaxDay
MaxDay == 22
\* update_streak stops counting study days at MaxStudyDays
MaxStudyDays == 24

----------------------------------------------------------------------------
(* Values *)

NoDate == 0
NoTime == -1
NoMilestone == 0
\* no file progress_<chat_id>.json
NoDocument == [missing |-> TRUE]
\* the entry points that can run side by side on one learner's document
Invocations == {"batch", "command"}

Levels == {"A1", "A2", "B1", "B2"}

\* the catalog entries (word_data) lessons are drawn from: 'german' is the word id
Catalog == {[german |-> "Haus", level |-> "A1"], [german |-> "gehen", level |-> "A2"]}

WordIds == {wd.german : wd \in Catalog}

Min(a, b) == IF a <= b THEN a ELSE b

RECURSIVE GCD(_, _)
GCD(a, b) == IF b = 0 THEN a ELSE GCD(b, a % b)

\* a rational number in lowest terms (the model of a float that is a mean of 0s and 1s)
Rat(n, d) == LET g == GCD(n, d) IN [num |-> n \div g, den |-> d \div g]

----------------------------------------------------------------------------
(* UserProgress: the spaced-repetition schedule (src/user_progress.py) *)

\* intervals = [1, 3, 7, 14, 30]
DefaultIntervals == <<1, 3, 7, 14, 30>>

\* timedelta(days = n), in ticks
Days(n) == n * TicksPerDay

\* the entry schedule_spaced_repetition stores, for `now` read as t
NewReviewState(word_data, t) ==
    [word_data     |-> word_data,
     review_count  |-> 0,
     next_review   |-> t + Days(DefaultIntervals[0 + 1]),
     intervals     |-> DefaultIntervals,
     last_reviewed |-> t,
     success_rate  |-> Rat(0, 1)]

\* success_rate = (old_rate * (count - 1) + (1.0 if success else 0.0)) / count
RunningMean(old_rate, count, success) ==
    Rat(old_rate.num * (count - 1) + (IF success THEN 1 ELSE 0) * old_rate.den,
        old_rate.den * count)

\* C1, C2: a success that stays on the current ladder index instead of moving on
StayOnCurrentInterval(review_count, len, success) ==
    IF success THEN Min(review_count - 1, len - 1) ELSE 0

\* C3, C4: a failure that does not reset the ladder index
NoResetOnFailure(review_count, len, success) ==
    Min(Min(review_count - 1, len - 1) + (IF success THEN 1 ELSE 0), len - 1)

\* the 0-based ladder index update_review_result picks; review_count is the
\* count after its increment
NextIntervalIndex(review_count, len, success) ==
    LET current_interval_index == Min(review_count - 1, len - 1)
    IN  IF success
        THEN Min(current_interval_index + 1, len - 1)
        ELSE 0

\* update_review_result on an existing entry: t1 is datetime.now() as read for
\* last_reviewed, t2 >= t1 is datetime.now() as read for next_review
ReviewStateAfter(review_data, success, t1, t2) ==
    LET count     == review_data.review_count + 1
        intervals == review_data.intervals
        next_interval_index == NextIntervalIndex(count, Len(intervals), success)
    IN  [review_data EXCEPT
            !.review_count  = count,
            !.last_reviewed = t1,
            !.success_rate  = RunningMean(review_data.success_rate, count, success),
            !.next_review   = t2 + Days(intervals[next_interval_index + 1])]

\* the list operation `x not in list`
InList(x, list) == \E i \in 1..Len(list) : list[i] = x

\* C17: an add_learned_word that counts a word it already holds once more
CountedAgain(v, word_data, t) ==
    LET word_id == word_data.german
        level   == word_data.level
    IN  IF ~InList(word_id, v.words_by_level[level])
        THEN [v EXCEPT
                !.words_by_level      = [@ EXCEPT ![level] = Append(@, word_id)],
                !.total_words_learned = @ + 1,
                !.spaced_repetition   =
                    [w \in DOMAIN v.spaced_repetition \cup {word_id} |->
                        IF w = word_id THEN NewReviewState(word_data, t)
                                       ELSE v.spaced_repetition[w]]]
        ELSE [v EXCEPT !.total_words_learned = @ + 1]

\* C18: an add_learned_word that schedules the word whether it holds it or not
ScheduledAgain(v, word_data, t) ==
    LET word_id == word_data.german
        level   == word_data.level
        known   == InList(word_id, v.words_by_level[level])
    IN  [v EXCEPT
            !.words_by_level      = IF known THEN @ ELSE [@ EXCEPT ![level] = Append(@, word_id)],
            !.total_words_learned = IF known THEN @ ELSE @ + 1,
            !.spaced_repetition   =
                [w \in DOMAIN v.spaced_repetition \cup {word_id} |->
                    IF w = word_id THEN NewReviewState(word_data, t)
                                   ELSE v.spaced_repetition[w]]]

\* add_learned_word(word_data), schedule_spaced_repetition included, on the
\* vocabulary fields v of a record, with datetime.now() read as t
LearnedAdded(v, word_data, t) ==
    LET word_id == word_data.german
        level   == word_data.level
    IN  IF ~InList(word_id, v.words_by_level[level])
        THEN [v EXCEPT
                !.words_by_level      = [@ EXCEPT ![level] = Append(@, word_id)],
                !.total_words_learned = @ + 1,
                !.spaced_repetition   =
                    [w \in DOMAIN v.spaced_repetition \cup {word_id} |->
                        IF w = word_id THEN NewReviewState(word_data, t)
                                       ELSE v.spaced_repetition[w]]]
        ELSE v

\* the vocabulary fields of the record, as one value
VocabularyFields ==
    [words_by_level      |-> words_by_level,
     total_words_learned |-> total_words_learned,
     spaced_repetition   |-> spaced_repetition]

\* add_learned_word(word_data) on the record in memory
AddLearnedWord(word_data) ==
    LET word_id == word_data.german
        v       == LearnedAdded(VocabularyFields, word_data, now)
    IN  /\ words_by_level' = v.words_by_level
        /\ total_words_learned' = v.total_words_learned
        /\ spaced_repetition' = v.spaced_repetition
        /\ review_history' =
              IF v # VocabularyFields
              THEN [w \in DOMAIN review_history \cup {word_id} |->
                      IF w = word_id THEN [outcomes |-> <<>>, time |-> now]
                                     ELSE review_history[w]]
              ELSE review_history
        /\ UNCHANGED <<now, streak_vars, io_vars>>

\* update_review_result(word_id, success); the clock advances by delta between
\* its two readings
UpdateReviewResult(word_id, success, delta) ==
    /\ IF word_id \notin DOMAIN spaced_repetition
       THEN UNCHANGED <<now, spaced_repetition, review_history>>
       ELSE /\ now' = now + delta
            /\ spaced_repetition' =
                  [spaced_repetition EXCEPT ![word_id] =
                      ReviewStateAfter(@, success, now, now + delta)]
            /\ review_history' =
                  [review_history EXCEPT ![word_id] =
                      [outcomes |-> Append(@.outcomes, success),
                       time     |-> now + delta]]
    /\ UNCHANGED <<words_by_level, total_words_learned, streak_vars, io_vars>>

\* get_words_for_review: the word_data of the entries with next_review <= now
WordsForReview ==
    {spaced_repetition[w].word_data :
        w \in {x \in DOMAIN spaced_repetition : spaced_repetition[x].next_review <= now}}

\* time passes between two calls
Tick ==
    /\ now < MaxNow
    /\ now' = now + 1
    /\ UNCHANGED <<words_by_level, total_words_learned, spaced_repetition,
                   review_history, streak_vars, io_vars>>

\* the number of outcomes recorded so far, over all words
RECURSIVE SumReviews(_)
SumReviews(S) ==
    IF S = {} THEN 0
    ELSE LET w == CHOOSE x \in S : TRUE
         IN  spaced_repetition[w].review_count + SumReviews(S \ {w})

----------------------------------------------------------------------------
(* The record a first use constructs: default_progress of load_progress *)

NoStreakInfo ==
    [streak_continued  |-> FALSE,
     streak_broken     |-> FALSE,
     milestone_reached |-> NoMilestone,
     grace_period_used |-> FALSE,
     streak_recovered  |-> FALSE]

\* the streak fields of the record, as one value
StreakFields ==
    [daily_streak            |-> daily_streak,
     longest_streak          |-> longest_streak,
     total_study_days        |-> total_study_days,
     streak_milestones       |-> streak_milestones,
     last_lesson_date        |-> last_lesson_date,
     streak_freeze_used      |-> streak_freeze_used,
     streak_freeze_available |-> streak_freeze_available,
     grace_period_active     |-> grace_period_active,
     achievements            |-> achievements]

Init ==
    /\ now = 0
    /\ words_by_level = [l \in Levels |-> <<>>]
    /\ total_words_learned = 0
    /\ spaced_repetition = <<>>
    /\ review_history = <<>>
    /\ daily_streak = 0
    /\ longest_streak = 0
    /\ total_study_days = 0
    /\ streak_milestones = <<>>
    /\ last_lesson_date = NoDate
    /\ streak_freeze_used = 0
    /\ streak_freeze_available = 1
    /\ grace_period_active = FALSE
    /\ grace_period_expires = NoTime
    /\ achievements = <<>>
    /\ streak_info = NoStreakInfo
    /\ streak_pre = [called |-> FALSE]
    /\ grace_uses = 0
    /\ disk = NoDocument
    /\ outbox = <<>>
    /\ last_call = [op |-> "none"]
    /\ retention_rates = <<>>
    /\ inv = [p \in Invocations |-> [pc |-> "idle"]]
    /\ posted = <<>>
    /\ active_users = <<>>

----------------------------------------------------------------------------
(* The schedule under lessons and reviews *)

NextReview ==
    \/ \E word_data \in Catalog : AddLearnedWord(word_data)
    \/ \E word_id \in WordIds, success \in BOOLEAN, delta \in {0, 1} :
          /\ now + delta <= MaxNow
          /\ SumReviews(DOMAIN spaced_repetition) < MaxReviews
          /\ UpdateReviewResult(word_id, success, delta)
    \/ Tick

SpecReview == Init /\ [][NextReview]_vars

\* the outcomes recorded for w since it was scheduled are all successes
AllSuccesses(w) ==
    \A i \in 1..Len(review_history[w].outcomes) : review_history[w].outcomes[i]

\* the 1-based position of a 0-based ladder index of w, capped at the last one
LadderAt(w, index) ==
    spaced_repetition[w].intervals[Min(index, Len(spaced_repetition[w].intervals) - 1) + 1]

\* C1, as stated: after k >= 1 consecutive successes since scheduling, the next-due
\* time is the time of the k-th success plus i[min(k-1, len-1)] days.
C1_AsStated ==
    \A w \in DOMAIN spaced_repetition :
        LET k == Len(review_history[w].outcomes)
        IN  (k >= 1 /\ AllSuccesses(w)) =>
                spaced_repetition[w].next_review =
                    review_history[w].time + Days(LadderAt(w, k - 1))

\* C1, amended: after k >= 1 consecutive successes since scheduling, the next-due
\* time is the time of the k-th success plus i[min(k, len-1)] days.
C1_NextDueAfterSuccesses ==
    \A w \in DOMAIN spaced_repetition :
        LET k == Len(review_history[w].outcomes)
        IN  (k >= 1 /\ AllSuccesses(w)) =>
                spaced_repetition[w].next_review =
                    review_history[w].time + Days(LadderAt(w, k))

\* a word with more consecutive successes than the ladder has intervals
C1_Witness ==
    \E w \in DOMAIN spaced_repetition :
        /\ Len(review_history[w].outcomes) > Len(spaced_repetition[w].intervals)
        /\ AllSuccesses(w)
        /\ spaced_repetition[w].next_review = review_history[w].time + Days(30)

\* C2, as stated: first review fails, second review succeeds: the next-due time is
\* the time of the second review plus 3 days.
C2_AsStated ==
    \A w \in DOMAIN spaced_repetition :
        (/\ spaced_repetition[w].intervals = <<1, 3, 7, 14, 30>>
         /\ review_history[w].outcomes = <<FALSE, TRUE>>) =>
            spaced_repetition[w].next_review = review_history[w].time + Days(3)

\* C2, amended: first review fails, second review succeeds: the next-due time is
\* the time of the second review plus 7 days (ladder index 2 = min(review_count, 4)).
C2_FailThenSuccess ==
    \A w \in DOMAIN spaced_repetition :
        (/\ spaced_repetition[w].intervals = <<1, 3, 7, 14, 30>>
         /\ review_history[w].outcomes = <<FALSE, TRUE>>) =>
            /\ spaced_repetition[w].review_count = 2
            /\ spaced_repetition[w].next_review = review_history[w].time + Days(7)

\* a word whose two recorded reviews are a failure, then a success
C2_Witness ==
    \E w \in DOMAIN spaced_repetition :
        /\ review_history[w].outcomes = <<FALSE, TRUE>>
        /\ spaced_repetition[w].intervals = <<1, 3, 7, 14, 30>>

\* C3, as stated: every ReviewState has next-due = (time of its last scheduling or
\* outcome) + intervals[min(review_count, len-1)] days, after failures too.
C3_AsStated ==
    \A w \in DOMAIN spaced_repetition :
        spaced_repetition[w].next_review =
            review_history[w].time + Days(LadderAt(w, spaced_repetition[w].review_count))

\* the last outcome recorded for w is a failure
LastFailed(w) ==
    LET o == review_history[w].outcomes IN Len(o) >= 1 /\ ~o[Len(o)]

\* C3, amended: every ReviewState has next-due = (time of its last scheduling or
\* outcome) + intervals[min(review_count, len-1)] days after scheduling and after
\* every success, and + intervals[0] days after every failure.
C3_NextDueFromLadder ==
    \A w \in DOMAIN spaced_repetition :
        /\ spaced_repetition[w].review_count = Len(review_history[w].outcomes)
        /\ spaced_repetition[w].next_review =
              review_history[w].time +
                 Days(LadderAt(w, IF LastFailed(w) THEN 0
                                  ELSE spaced_repetition[w].review_count))

\* one word just scheduled, another whose history holds a failure before a success
C3_Witness ==
    \E w, x \in DOMAIN spaced_repetition :
        /\ spaced_repetition[w].review_count = 0
        /\ Len(review_history[x].outcomes) >= 3
        /\ ~LastFailed(x)
        /\ ~AllSuccesses(x)

\* C4: after a failed outcome, whatever the review_count and the earlier history,
\* the next-due time is the time of that outcome plus i0.
C4_FailureResetsToFirstInterval ==
    \A w \in DOMAIN spaced_repetition :
        LastFailed(w) =>
            spaced_repetition[w].next_review =
                review_history[w].time + Days(spaced_repetition[w].intervals[1])

\* a failure recorded after four successes
C4_Witness ==
    \E w \in DOMAIN spaced_repetition :
        /\ review_history[w].outcomes = <<TRUE, TRUE, TRUE, TRUE, FALSE>>
        /\ spaced_repetition[w].review_count = 5
        /\ spaced_repetition[w].next_review = review_history[w].time + Days(1)

----------------------------------------------------------------------------
(* StreakManager (src/streak_manager.py) *)

\* self.streak_milestones
StreakMilestoneList == <<7, 14, 30, 50, 100, 200, 365, 500, 1000>>

\* self.milestone_rewards
milestone_rewards ==
    [m \in {7, 14, 30, 50, 100, 200, 365, 500, 1000} |->
        CASE m = 7    -> [title |-> "Week Warrior",          freeze_bonus |-> 1]
          [] m = 14   -> [title |-> "Fortnight Fighter",     freeze_bonus |-> 1]
          [] m = 30   -> [title |-> "Monthly Master",        freeze_bonus |-> 2]
          [] m = 50   -> [title |-> "Fifty Fantastic",       freeze_bonus |-> 2]
          [] m = 100  -> [title |-> "Century Scholar",       freeze_bonus |-> 3]
          [] m = 200  -> [title |-> "Bicentennial Brain",    freeze_bonus |-> 3]
          [] m = 365  -> [title |-> "Annual Achiever",       freeze_bonus |-> 5]
          [] m = 500  -> [title |-> "Quincentennial Genius", freeze_bonus |-> 5]
          [] m = 1000 -> [title |-> "Millennium Master",     freeze_bonus |-> 10]]

\* C6: a grace period that can be activated again and again
GraceAlwaysAvailable(active) == TRUE

\* _can_use_grace_period
CanUseGracePeriod(active) == ~active

\* _can_use_streak_freeze
CanUseStreakFreeze(available) == available > 0

\* C10: a same-day call counted as a consecutive day
SameDayCounted(last_lesson, lesson_date, grace_active) ==
    IF last_lesson = NoDate THEN "first"
    ELSE LET days_diff == lesson_date - last_lesson
         IN  IF days_diff = 1 \/ days_diff = 0 THEN "consecutive"
             ELSE IF days_diff = 2 /\ CanUseGracePeriod(grace_active) THEN "grace"
             ELSE "broken"

\* C21: a next-day call that is not recognised as the consecutive day
NextDayMissed(last_lesson, lesson_date, grace_active) ==
    IF last_lesson = NoDate THEN "first"
    ELSE LET days_diff == lesson_date - last_lesson
         IN  IF days_diff = 0 THEN "same_day"
             ELSE IF days_diff = 2 /\ CanUseGracePeriod(grace_active) THEN "grace"
             ELSE "broken"

\* the branch update_streak takes
StreakBranch(last_lesson, lesson_date, grace_active) ==
    IF last_lesson = NoDate THEN "first"
    ELSE LET days_diff == lesson_date - last_lesson
         IN  IF days_diff = 1 THEN "consecutive"
             ELSE IF days_diff = 0 THEN "same_day"
             ELSE IF days_diff = 2 /\ CanUseGracePeriod(grace_active) THEN "grace"
             ELSE "broken"

\* C5: a freeze that forgives a gap of any length
FreezeAnyGap(available, days_diff) == CanUseStreakFreeze(available)

\* in the broken branch: whether the streak freeze is used; _use_streak_freeze
\* then finds the same credit and returns True
FreezeRecovers(available, days_diff) ==
    CanUseStreakFreeze(available) /\ days_diff <= 7

\* C8: a milestone check that forgets what was awarded
CheckIgnoringAwarded(current_streak, achieved_milestones) ==
    LET hits == {i \in 1..Len(StreakMilestoneList) :
                    current_streak >= StreakMilestoneList[i]}
    IN  IF hits = {} THEN NoMilestone
        ELSE StreakMilestoneList[CHOOSE i \in hits : \A j \in hits : i <= j]

\* _check_milestone_reached: the first milestone of the list, in list order, that
\* the streak has reached and that is not in achieved_milestones; None otherwise
CheckMilestoneReached(current_streak, achieved_milestones) ==
    LET hits == {i \in 1..Len(StreakMilestoneList) :
                    /\ current_streak >= StreakMilestoneList[i]
                    /\ ~InList(StreakMilestoneList[i], achieved_milestones)}
    IN  IF hits = {} THEN NoMilestone
        ELSE StreakMilestoneList[CHOOSE i \in hits : \A j \in hits : i <= j]

\* the achievement record _award_milestone appends
MilestoneAchievement(milestone, t) ==
    [type      |-> "streak_milestone",
     milestone |-> milestone,
     date      |-> t,
     title     |-> milestone_rewards[milestone].title]

\* C7: an award that forgets the freeze bonus
NoFreezeBonus(available, milestone) == available

\* C30: an award that grants the freeze bonus twice
BonusGrantedTwice(available, milestone) ==
    available + 2 * milestone_rewards[milestone].freeze_bonus

\* _award_milestone: streak_freeze_available after the freeze bonus
FreezeAfterAward(available, milestone) ==
    LET freeze_bonus == milestone_rewards[milestone].freeze_bonus
    IN  IF freeze_bonus > 0 THEN available + freeze_bonus ELSE available

\* C9: a longest streak that is only recorded when a streak breaks
LongestNotRaised(current_streak, longest) == longest

\* "Update longest streak if current is longer"
LongestAfter(current_streak, longest) ==
    IF current_streak > longest THEN current_streak ELSE longest

\* update_streak(lesson_date) on the streak fields f of a record whose
\* grace_period_expires is `expires`, with datetime.now() read as t: the fields
\* and the expiry it leaves, and the streak_info it returns
StreakUpdated(f, expires, lesson_date, t) ==
    LET branch     == StreakBranch(f.last_lesson_date, lesson_date, f.grace_period_active)
        days_diff  == lesson_date - f.last_lesson_date
        old_streak == f.daily_streak
        recovered  == branch = "broken" /\ FreezeRecovers(f.streak_freeze_available, days_diff)
        \* the streak fields before the milestone check
        streak1    == CASE branch = "first"       -> 1
                        [] branch = "consecutive" -> f.daily_streak + 1
                        [] branch = "same_day"    -> f.daily_streak
                        [] branch = "grace"       -> f.daily_streak + 1
                        [] branch = "broken"      -> IF recovered THEN old_streak + 1 ELSE 1
        total1     == CASE branch = "first"    -> 1
                        [] branch = "same_day" -> f.total_study_days
                        [] OTHER               -> f.total_study_days + 1
        longest1   == IF branch = "broken" /\ old_streak > f.longest_streak
                      THEN old_streak ELSE f.longest_streak
        available1 == IF recovered THEN f.streak_freeze_available - 1
                                   ELSE f.streak_freeze_available
        used1      == IF recovered THEN f.streak_freeze_used + 1 ELSE f.streak_freeze_used
        \* "Check for milestone achievements"
        milestone  == CheckMilestoneReached(streak1, f.streak_milestones)
    IN  [fields |->
            [daily_streak            |-> streak1,
             longest_streak          |-> LongestAfter(streak1, longest1),
             total_study_days        |-> total1,
             streak_milestones       |-> IF milestone # NoMilestone
                                         THEN Append(f.streak_milestones, milestone)
                                         ELSE f.streak_milestones,
             last_lesson_date        |-> lesson_date,
             streak_freeze_used      |-> used1,
             streak_freeze_available |-> IF milestone # NoMilestone
                                         THEN FreezeAfterAward(available1, milestone)
                                         ELSE available1,
             grace_period_active     |-> (f.grace_period_active \/ branch = "grace"),
             achievements            |-> IF milestone # NoMilestone
                                         THEN Append(f.achievements,
                                                     MilestoneAchievement(milestone, t))
                                         ELSE f.achievements],
         grace_period_expires |-> IF branch = "grace" THEN t + Days(1) ELSE expires,
         info |->
            [streak_continued  |-> branch \in {"first", "consecutive", "grace"},
             streak_broken     |-> branch = "broken" /\ ~recovered,
             milestone_reached |-> milestone,
             grace_period_used |-> branch = "grace",
             streak_recovered  |-> recovered]]

\* what update_streak(lesson_date) writes to the record in memory and returns
StreakRecorded(lesson_date) ==
    LET r == StreakUpdated(StreakFields, grace_period_expires, lesson_date, now)
    IN  /\ streak_pre' = [called |-> TRUE, lesson_date |-> lesson_date,
                          fields |-> StreakFields]
        /\ daily_streak' = r.fields.daily_streak
        /\ longest_streak' = r.fields.longest_streak
        /\ total_study_days' = r.fields.total_study_days
        /\ streak_milestones' = r.fields.streak_milestones
        /\ last_lesson_date' = r.fields.last_lesson_date
        /\ streak_freeze_used' = r.fields.streak_freeze_used
        /\ streak_freeze_available' = r.fields.streak_freeze_available
        /\ grace_period_active' = r.fields.grace_period_active
        /\ achievements' = r.fields.achievements
        /\ grace_period_expires' = r.grace_period_expires
        /\ grace_uses' = IF r.info.grace_period_used THEN grace_uses + 1 ELSE grace_uses
        /\ streak_info' = r.info

\* update_streak(lesson_date) on the record in memory
UpdateStreak(lesson_date) ==
    /\ StreakRecorded(lesson_date)
    /\ UNCHANGED <<sr_vars, io_vars>>

\* the day gaps between a call's lesson date and the last lesson date
Gaps == {-1, 0, 1, 2, 3, 8}

\* the lesson dates the calls are made with
LessonDates ==
    IF last_lesson_date = NoDate THEN {1}
    ELSE {last_lesson_date + g : g \in Gaps} \cap (1..MaxDay)

NextStreak ==
    \E lesson_date \in LessonDates :
        /\ lesson_date # last_lesson_date => total_study_days < MaxStudyDays
        /\ UpdateStreak(lesson_date)

SpecStreak == Init /\ [][NextStreak]_vars

\* the whole record: lessons, reviews and streak updates in any order
Next == NextReview \/ NextStreak

Spec == Init /\ [][Next]_vars

\* the last update_streak call found a last lesson date, `gap` days before its own
CalledWithGap(gap) ==
    /\ streak_pre.called
    /\ streak_pre.fields.last_lesson_date # NoDate
    /\ streak_pre.lesson_date - streak_pre.fields.last_lesson_date = gap

\* the freeze bonus of the milestone the last call reports, 0 if it reports none
ReportedBonus ==
    IF streak_info.milestone_reached = NoMilestone THEN 0
    ELSE milestone_rewards[streak_info.milestone_reached].freeze_bonus

\* C5: on an update whose gap is >= 3 days, or 2 days with the grace period
\* already used: if a freeze credit is available and the gap is <= 7 days, exactly
\* one credit is consumed, current_streak = old_streak + 1, the outcome is
\* recovered and not broken; otherwise no credit is consumed, current_streak = 1,
\* the outcome is broken and not recovered.
C5_LargerGap ==
    \A gap \in 2..MaxDay :
        (/\ CalledWithGap(gap)
         /\ gap >= 3 \/ streak_pre.fields.grace_period_active) =>
            IF streak_pre.fields.streak_freeze_available >= 1 /\ gap <= 7
            THEN /\ streak_freeze_used = streak_pre.fields.streak_freeze_used + 1
                 /\ streak_freeze_available =
                       streak_pre.fields.streak_freeze_available - 1 + ReportedBonus
                 /\ daily_streak = streak_pre.fields.daily_streak + 1
                 /\ streak_info.streak_recovered
                 /\ ~streak_info.streak_broken
            ELSE /\ streak_freeze_used = streak_pre.fields.streak_freeze_used
                 /\ streak_freeze_available = streak_pre.fields.streak_freeze_available
                 /\ daily_streak = 1
                 /\ streak_info.streak_broken
                 /\ ~streak_info.streak_recovered

\* the scenario: streak 6, one freeze credit, gap of 3 days: the freeze is
\* consumed, the streak is 7, milestone 7 is reached and brings one credit back
C5_Witness ==
    /\ CalledWithGap(3)
    /\ streak_pre.fields.daily_streak = 6
    /\ streak_pre.fields.streak_freeze_available = 1
    /\ daily_streak = 7
    /\ streak_info.milestone_reached = 7
    /\ streak_info.streak_recovered
    /\ streak_freeze_available = 1
    /\ streak_freeze_used = 1

\* the last call was a grace continuation
GraceContinuation ==
    /\ daily_streak = streak_pre.fields.daily_streak + 1
    /\ streak_info.grace_period_used
    /\ grace_period_active
    /\ streak_freeze_used = streak_pre.fields.streak_freeze_used
    /\ ~streak_info.streak_broken

\* C6: an update exactly 2 days after the last lesson is a grace continuation
\* (streak + 1, grace_period_used, no freeze consumed, not broken) if and only if
\* the grace period has not been used before; over the lifetime of a record the
\* grace period is consumed at most once.
C6_GraceOnce ==
    /\ CalledWithGap(2) =>
          (GraceContinuation <=> ~streak_pre.fields.grace_period_active)
    /\ (streak_pre.called /\ streak_info.grace_period_used) => CalledWithGap(2)
    /\ grace_uses <= 1
    /\ grace_period_active <=> grace_uses = 1

\* a second update 2 days after a lesson, on a record whose grace period is used:
\* it is no grace continuation
C6_Witness ==
    /\ CalledWithGap(2)
    /\ streak_pre.fields.grace_period_active
    /\ grace_uses = 1
    /\ ~streak_info.grace_period_used

\* the thresholds the streak has reached that the last call found unawarded
Unawarded ==
    {StreakMilestoneList[i] : i \in 1..Len(StreakMilestoneList)} \cap
    {m \in 1..daily_streak : ~InList(m, streak_pre.fields.streak_milestones)}

\* C7: after every update, if some threshold is <= current_streak and not yet
\* awarded, the smallest such threshold, and only it, is awarded in that call: it is
\* added to the awarded list, exactly one Achievement is appended, its freeze
\* bonus is added to the available credits (on top of what the call's freeze use
\* left) and milestone_reached is set to it; if there is none, milestone_reached
\* is empty, the lists are unchanged and no credit is added.
C7_MilestoneAward ==
    streak_pre.called =>
        LET left == streak_pre.fields.streak_freeze_available
                       - (streak_freeze_used - streak_pre.fields.streak_freeze_used)
        IN  IF Unawarded # {}
            THEN LET m == CHOOSE x \in Unawarded : \A y \in Unawarded : x <= y
                 IN  /\ streak_info.milestone_reached = m
                     /\ streak_milestones = Append(streak_pre.fields.streak_milestones, m)
                     /\ Len(achievements) = Len(streak_pre.fields.achievements) + 1
                     /\ SubSeq(achievements, 1, Len(achievements) - 1)
                           = streak_pre.fields.achievements
                     /\ achievements[Len(achievements)].type = "streak_milestone"
                     /\ achievements[Len(achievements)].milestone = m
                     /\ streak_freeze_available = left + milestone_rewards[m].freeze_bonus
            ELSE /\ streak_info.milestone_reached = NoMilestone
                 /\ streak_milestones = streak_pre.fields.streak_milestones
                 /\ achievements = streak_pre.fields.achievements
                 /\ streak_freeze_available = left

\* the call that reaches 14 days awards 14, after 7 was awarded by an earlier call
C7_Witness ==
    /\ streak_pre.called
    /\ streak_pre.fields.streak_milestones = <<7>>
    /\ daily_streak = 14
    /\ streak_info.milestone_reached = 14
    /\ streak_milestones = <<7, 14>>
    /\ Len(achievements) = 2

\* C8: over any sequence of updates, no threshold appears more than once in the
\* awarded list and at most one streak-milestone Achievement exists per threshold.
C8_MilestonesOnce ==
    /\ \A i, j \in 1..Len(streak_milestones) :
          streak_milestones[i] = streak_milestones[j] => i = j
    /\ \A i, j \in 1..Len(achievements) :
          (/\ achievements[i].type = "streak_milestone"
           /\ achievements[j].type = "streak_milestone"
           /\ achievements[i].milestone = achievements[j].milestone) => i = j

\* the streak is at 7 again after a reset, and then a same-day call is made
C8_Witness ==
    /\ streak_pre.called
    /\ streak_pre.lesson_date = streak_pre.fields.last_lesson_date
    /\ daily_streak = 7
    /\ longest_streak > 7
    /\ InList(7, streak_milestones)
    /\ streak_info.milestone_reached = NoMilestone

\* C9: from a fresh record, longest_streak never decreases from one call to the
\* next, and after each call longest_streak >= current_streak.
C9_LongestStreak ==
    /\ longest_streak >= daily_streak
    /\ streak_pre.called => longest_streak >= streak_pre.fields.longest_streak

\* a broken streak: the current streak is 1 below a longest streak of at least 3
C9_Witness ==
    /\ streak_pre.called
    /\ streak_info.streak_broken
    /\ streak_pre.fields.daily_streak >= 3
    /\ daily_streak = 1
    /\ longest_streak = streak_pre.fields.daily_streak

\* C10: an update whose lesson date is the record's last lesson date changes no
\* streak field (streak, longest, study days, freeze credits available and used,
\* grace flag, awarded list, achievements) and reports no continuation, break,
\* recovery, grace use or milestone.
C10_SameDayNoOp ==
    (/\ streak_pre.called
     /\ streak_pre.lesson_date = streak_pre.fields.last_lesson_date) =>
        /\ StreakFields = streak_pre.fields
        /\ streak_info = NoStreakInfo

\* a same-day call on a record whose streak stands at a milestone
C10_Witness ==
    /\ streak_pre.called
    /\ streak_pre.lesson_date = streak_pre.fields.last_lesson_date
    /\ daily_streak = 7
    /\ streak_milestones = <<7>>
    /\ streak_freeze_available = 2

----------------------------------------------------------------------------
(* The persisted learner document and the handlers that load and save it *)

\* default_progress of load_progress: the document of a learner with no file
DefaultDocument ==
    [current_level        |-> "A1",
     words_by_level       |-> [l \in Levels |-> <<>>],
     total_words_learned  |-> 0,
     spaced_repetition    |-> <<>>,
     streak               |-> [daily_streak            |-> 0,
                               longest_streak          |-> 0,
                               total_study_days        |-> 0,
                               streak_milestones       |-> <<>>,
                               last_lesson_date        |-> NoDate,
                               streak_freeze_used      |-> 0,
                               streak_freeze_available |-> 1,
                               grace_period_active     |-> FALSE,
                               achievements            |-> <<>>],
     grace_period_expires |-> NoTime]

\* what can be wrong with the bytes of progress_<chat_id>.json
Damages == {"not_json", "not_utf8", "json_list", "json_null"}

\* a file that holds no JSON object
Damaged(file) == "damage" \in DOMAIN file

\* the value load_progress returns when it does not return: nothing
Nothing == [nothing |-> TRUE]

\* with open(...) as f: data = json.load(f): the value, or the exception raised
JsonLoad(file) ==
    CASE ~Damaged(file)             -> [raises |-> "none", data |-> file]
      [] file.damage = "not_json"   -> [raises |-> "JSONDecodeError"]
      [] file.damage = "not_utf8"   -> [raises |-> "UnicodeDecodeError"]
      [] file.damage = "json_list"  -> [raises |-> "none", data |-> file]
      [] file.damage = "json_null"  -> [raises |-> "none", data |-> file]

\* "Merge with default to ensure all fields exist": `key not in data` raises
\* TypeError on None, `data[key] = value` raises TypeError on a list
Merged(data) ==
    IF Damaged(data) THEN [raises |-> "TypeError"]
    ELSE [raises |-> "none",
          data   |-> [key \in DOMAIN data \cup DOMAIN DefaultDocument |->
                         IF key \in DOMAIN data THEN data[key]
                                                ELSE DefaultDocument[key]]]

\* C22: a handler for decoding errors only
OnlyDecodeErrorsCaught(exception) == exception = "JSONDecodeError"

\* except Exception as e: every exception of the try block is one
Caught(exception) == TRUE

\* load_progress: the exception that leaves it ("none" if it returns), whether it
\* logged an error, and the record it returns
LoadOutcome(file) ==
    IF file = NoDocument
    THEN \* os.path.exists(self.progress_file) is False
         [raises |-> "none", logged |-> FALSE, data |-> DefaultDocument]
    ELSE LET parsed == JsonLoad(file)
             merged == IF parsed.raises = "none" THEN Merged(parsed.data) ELSE parsed
         IN  IF merged.raises = "none"
             THEN [raises |-> "none", logged |-> FALSE, data |-> merged.data]
             ELSE IF Caught(merged.raises)
             THEN [raises |-> "none", logged |-> TRUE, data |-> DefaultDocument]
             ELSE [raises |-> merged.raises, logged |-> FALSE, data |-> Nothing]

\* load_progress: the record it returns
LoadProgress(file) == LoadOutcome(file).data

\* the vocabulary fields of a document
VocabularyOf(d) ==
    [words_by_level      |-> d.words_by_level,
     total_words_learned |-> d.total_words_learned,
     spaced_repetition   |-> d.spaced_repetition]

\* the document d after add_learned_word(word_data)
DocLearned(d, word_data, t) ==
    LET v == LearnedAdded(VocabularyOf(d), word_data, t)
    IN  [d EXCEPT !.words_by_level      = v.words_by_level,
                  !.total_words_learned = v.total_words_learned,
                  !.spaced_repetition   = v.spaced_repetition]

\* for word in daily_words: user_progress.add_learned_word(word)
RECURSIVE DocLearnedAll(_, _, _)
DocLearnedAll(d, words, t) ==
    IF words = <<>> THEN d
    ELSE DocLearnedAll(DocLearned(d, Head(words), t), Tail(words), t)

\* the document d after streak_manager.update_streak(), and its streak_info
DocStreakUpdated(d, lesson_date, t) ==
    LET r == StreakUpdated(d.streak, d.grace_period_expires, lesson_date, t)
    IN  [doc  |-> [d EXCEPT !.streak = r.fields,
                            !.grace_period_expires = r.grace_period_expires],
         info |-> r.info]

\* datetime.now().strftime('%Y-%m-%d'): the day ordinal of the tick t
Date(t) == t \div TicksPerDay + 1

\* learned_words.extend(level_data['learned']) over the levels, as a set
AllLearned(d) ==
    UNION {{d.words_by_level[l][i] : i \in 1..Len(d.words_by_level[l])} : l \in Levels}

----------------------------------------------------------------------------
(* VocabularyManager: the words of a lesson (src/vocabulary_manager.py) *)

\* the lesson clock stops at MaxLessonNow ticks
MaxLessonNow == 5

\* words.json in file order
Vocabulary ==
    <<[german |-> "Haus",   level |-> "A1", frequency |-> 1],
      [german |-> "Hund",   level |-> "A1", frequency |-> 2],
      [german |-> "Katze",  level |-> "A1", frequency |-> 3],
      [german |-> "Wasser", level |-> "A1", frequency |-> 4],
      [german |-> "Brot",   level |-> "A1", frequency |-> 5]>>

\* send_daily_lesson_to_user asks get_progressive_words for 3 words
LessonSize == 3

\* random.sample(pool, n): the sequences of n distinct elements of pool
Samples(pool, n) ==
    {s \in [1..n -> pool] : \A i, j \in 1..n : i # j => s[i] # s[j]}

\* get_words_for_level(level, count, exclude_words) over the catalog `words`
\* (words.json in file order): every list it can return
WordsForLevelIn(words, level, count, exclude_words) ==
    LET idx       == {i \in 1..Len(words) :
                        /\ words[i].level = level
                        /\ words[i].german \notin exclude_words}
        \* available_words.sort(key = frequency) is stable: ties keep file order
        Before(i, j) == \/ words[i].frequency < words[j].frequency
                        \/ /\ words[i].frequency = words[j].frequency
                           /\ i < j
        rank(i)   == Cardinality({j \in idx : Before(j, i)})
        a         == count * 3
        b         == Cardinality(idx) \div 2
        pool_size == IF a >= b THEN a ELSE b
        pool      == {words[i] : i \in {k \in idx : rank(k) < pool_size}}
    IN  IF idx = {} THEN {<<>>}
        ELSE Samples(pool, Min(count, Cardinality(pool)))

\* get_words_for_level on the catalog of the lessons
WordsForLevel(level, count, exclude_words) ==
    WordsForLevelIn(Vocabulary, level, count, exclude_words)

\* level_distribution of get_progressive_words, ratios in tenths
LevelDistribution(user_level) ==
    CASE user_level = "A2" -> <<[level |-> "A1", ratio |-> 3], [level |-> "A2", ratio |-> 7]>>
      [] user_level = "B1" -> <<[level |-> "A1", ratio |-> 1], [level |-> "A2", ratio |-> 3],
                                [level |-> "B1", ratio |-> 6]>>
      [] user_level = "B2" -> <<[level |-> "A1", ratio |-> 1], [level |-> "A2", ratio |-> 2],
                                [level |-> "B1", ratio |-> 3], [level |-> "B2", ratio |-> 4]>>
      [] OTHER             -> <<[level |-> "A1", ratio |-> 10]>>

\* the first loop of get_progressive_words, from entry i of the distribution on
RECURSIVE SelectByLevelIn(_, _, _, _, _)
SelectByLevelIn(words, distribution, i, count, learned_words) ==
    IF i > Len(distribution) THEN {<<>>}
    ELSE LET n           == (count * distribution[i].ratio) \div 10
             level_count == IF n >= 1 THEN n ELSE 1
         IN  {s \o r : s \in WordsForLevelIn(words, distribution[i].level, level_count,
                                             learned_words),
                       r \in SelectByLevelIn(words, distribution, i + 1, count,
                                             learned_words)}

\* the first loop on the catalog of the lessons
SelectByLevel(distribution, i, count, learned_words) ==
    SelectByLevelIn(Vocabulary, distribution, i, count, learned_words)

\* get_progressive_words(user_level, count, learned_words) over the catalog
\* `words`: every list it can return. One pass of its fill loop fills the list
\* or exhausts the level.
ProgressiveWordsIn(words, user_level, count, learned_words) ==
    LET level  == IF user_level \in Levels THEN user_level ELSE "A1"
        first  == {SubSeq(s, 1, Min(Len(s), count)) :
                      s \in SelectByLevelIn(words, LevelDistribution(level), 1, count,
                                            learned_words)}
        Fill(s) == IF Len(s) >= count THEN {s}
                   ELSE {s \o r : r \in WordsForLevelIn(words, level, count - Len(s),
                                    learned_words \cup {s[i].german : i \in 1..Len(s)})}
    IN  UNION {Fill(s) : s \in first}

\* get_progressive_words on the catalog of the lessons
ProgressiveWords(user_level, count, learned_words) ==
    ProgressiveWordsIn(Vocabulary, user_level, count, learned_words)

\* the word_data add_learned_word is given: the catalog entry
WordData(w) == [german |-> w.german, level |-> w.level]

----------------------------------------------------------------------------
(* MultiUserGermanBot.send_daily_lesson_to_user (src/multi_user_bot.py), with
   the enhanced modules present *)

\* the transport accepted a lesson dated `date` before
LessonSentOn(date) ==
    \E i \in 1..Len(outbox) : outbox[i].kind = "lesson" /\ outbox[i].date = date

\* send_daily_lesson_to_user(chat_id): daily_words is the list
\* get_progressive_words returns; the transport answers the lesson with ok and
\* the streak message, if one is sent, with ok_streak
SendDailyLessonToUser(ok, ok_streak) ==
  \E daily_words \in ProgressiveWords(LoadProgress(disk).current_level, LessonSize,
                                       AllLearned(LoadProgress(disk))) :
    LET user_progress == LoadProgress(disk)
        today         == Date(now)
        call          == [op |-> "lesson", date |-> today,
                          delivered_today |-> LessonSentOn(today),
                          pre_document |-> user_progress,
                          sent_before |-> Len(outbox)]
        updated       == DocStreakUpdated(user_progress, today, now)
        learned       == DocLearnedAll(updated.doc,
                            [i \in 1..Len(daily_words) |-> WordData(daily_words[i])], now)
        lesson        == [kind |-> "lesson", date |-> today,
                          words |-> [i \in 1..Len(daily_words) |-> daily_words[i].german]]
        streak_text   == \/ updated.info.milestone_reached # NoMilestone
                         \/ updated.info.grace_period_used
                         \/ updated.info.streak_recovered
    IN  /\ IF daily_words = <<>> \/ ~ok
           THEN \* "if not daily_words: return False", or the send failed
                /\ last_call' = [call EXCEPT !.op = "lesson_failed"]
                /\ UNCHANGED <<disk, outbox>>
           ELSE /\ last_call' = call
                /\ disk' = learned
                /\ outbox' = IF streak_text /\ ok_streak
                             THEN outbox \o <<lesson, [kind |-> "streak", date |-> today,
                                                       words |-> <<>>]>>
                             ELSE Append(outbox, lesson)
        /\ UNCHANGED <<sr_vars, streak_vars, retention_rates, env_vars>>

\* time passes between two deliveries
LessonTick ==
    /\ now < MaxLessonNow
    /\ now' = now + 1
    /\ UNCHANGED <<words_by_level, total_words_learned, spaced_repetition,
                   review_history, streak_vars, io_vars>>

NextLesson ==
    \/ \E ok, ok_streak \in BOOLEAN : SendDailyLessonToUser(ok, ok_streak)
    \/ LessonTick

SpecLesson == Init /\ [][NextLesson]_vars

\* C11 (as the specification states it): a lesson delivery for a learner whose
\* lesson was already delivered on the same date sends no lesson message, adds
\* no word to the learned sets, schedules nothing and leaves the streak as it was
C11_SecondDeliverySameDayNoOp ==
    (last_call.op = "lesson" /\ last_call.delivered_today) =>
        /\ Len(outbox) = last_call.sent_before
        /\ VocabularyOf(disk) = VocabularyOf(last_call.pre_document)
        /\ disk.streak = last_call.pre_document.streak

----------------------------------------------------------------------------
(* Quiz result processing (src/quiz_system.py, src/adaptive_quiz_system.py) *)

\* a quiz has at most MaxQuestions questions
MaxQuestions == 2
\* the quizzes record at most MaxQuizReviews outcomes, over all words
MaxQuizReviews == 3

\* the document save_progress writes for the record in memory
DocumentOf(v, f, expires) ==
    [current_level        |-> "A1",
     words_by_level       |-> v.words_by_level,
     total_words_learned  |-> v.total_words_learned,
     spaced_repetition    |-> v.spaced_repetition,
     streak               |-> f,
     grace_period_expires |-> expires]

\* update_review_result(word_id, success) on a schedule sr and its history rh
ReviewRecorded(sr, rh, word_id, success, t) ==
    IF word_id \notin DOMAIN sr THEN [sr |-> sr, rh |-> rh]
    ELSE [sr |-> [sr EXCEPT ![word_id] = ReviewStateAfter(@, success, t, t)],
          rh |-> [rh EXCEPT ![word_id] = [outcomes |-> Append(@.outcomes, success),
                                         time     |-> t]]]

\* update_word_performance's retention counters for word_id
PerformanceRecorded(rr, word_id, is_correct) ==
    LET old == IF word_id \in DOMAIN rr THEN rr[word_id]
               ELSE [tests_taken |-> 0, correct_answers |-> 0]
    IN  [w \in DOMAIN rr \cup {word_id} |->
            IF w = word_id
            THEN [tests_taken     |-> old.tests_taken + 1,
                  correct_answers |-> old.correct_answers + (IF is_correct THEN 1 ELSE 0)]
            ELSE rr[w]]

\* the loop of process_quiz_results from question i on: an unanswered question
\* is skipped
RECURSIVE BasicProcessed(_, _, _, _, _)
BasicProcessed(st, questions, user_answers, i, t) ==
    IF i > Len(questions) THEN st
    ELSE IF i <= Len(user_answers)
         THEN LET is_correct == user_answers[i] = questions[i].correct_answer
                  r == ReviewRecorded(st.sr, st.rh, questions[i].word_id, is_correct, t)
              IN  BasicProcessed([st EXCEPT !.sr = r.sr, !.rh = r.rh,
                                            !.score = @ + (IF is_correct THEN 1 ELSE 0)],
                                 questions, user_answers, i + 1, t)
         ELSE BasicProcessed(st, questions, user_answers, i + 1, t)

\* the loop of process_adaptive_quiz_results from question i on: is_correct
\* stays False for an unanswered question and update_word_performance is
\* called for every question
RECURSIVE AdaptiveProcessed(_, _, _, _, _)
AdaptiveProcessed(st, questions, user_answers, i, t) ==
    IF i > Len(questions) THEN st
    ELSE LET is_correct == /\ i <= Len(user_answers)
                           /\ user_answers[i] = questions[i].correct_answer
             r == ReviewRecorded(st.sr, st.rh, questions[i].word_id, is_correct, t)
         IN  AdaptiveProcessed([st EXCEPT !.sr = r.sr, !.rh = r.rh,
                                          !.rr = PerformanceRecorded(@, questions[i].word_id,
                                                                     is_correct),
                                          !.score = @ + (IF is_correct THEN 1 ELSE 0)],
                               questions, user_answers, i + 1, t)

\* what both processors start from
QuizStart ==
    [sr |-> spaced_repetition, rh |-> review_history, rr |-> retention_rates, score |-> 0]

\* the history of a processed quiz
QuizCall(processor, questions, user_answers, score) ==
    [op |-> "quiz", processor |-> processor, questions |-> questions,
     answered |-> Len(user_answers), score |-> score, total |-> Len(questions),
     pre_count |-> [w \in DOMAIN spaced_repetition |-> spaced_repetition[w].review_count]]

\* QuizSystem.process_quiz_results(quiz_data, user_answers), save_progress included
ProcessQuizResults(questions, user_answers) ==
    LET st == BasicProcessed(QuizStart, questions, user_answers, 1, now)
    IN  /\ spaced_repetition' = st.sr
        /\ review_history' = st.rh
        /\ last_call' = QuizCall("basic", questions, user_answers, st.score)
        /\ disk' = IF questions = <<>> THEN disk
                   ELSE DocumentOf([VocabularyFields EXCEPT !.spaced_repetition = st.sr],
                                   StreakFields, grace_period_expires)
        /\ UNCHANGED <<now, words_by_level, total_words_learned, streak_vars,
                       outbox, retention_rates, env_vars>>

\* AdaptiveQuizSystem.process_adaptive_quiz_results(quiz_data, user_answers)
ProcessAdaptiveQuizResults(questions, user_answers) ==
    LET st == AdaptiveProcessed(QuizStart, questions, user_answers, 1, now)
    IN  /\ spaced_repetition' = st.sr
        /\ review_history' = st.rh
        /\ retention_rates' = st.rr
        /\ last_call' = QuizCall("adaptive", questions, user_answers, st.score)
        /\ UNCHANGED <<now, words_by_level, total_words_learned, streak_vars,
                       disk, outbox, env_vars>>

\* the quizzes over the scheduled words: question i asks for word_id, and the
\* answer index correct_answer is the right one
QuizQuestions ==
    UNION {[1..n -> [word_id : DOMAIN spaced_repetition, correct_answer : {0}]] :
              n \in 0..MaxQuestions}

\* the answer lists a learner can return for a quiz: no more answers than questions
QuizAnswers(questions) ==
    UNION {[1..n -> {0, 1}] : n \in 0..Len(questions)}

NextQuiz ==
    \/ \E word_data \in Catalog : AddLearnedWord(word_data)
    \/ \E questions \in QuizQuestions :
          /\ SumReviews(DOMAIN spaced_repetition) + Len(questions) <= MaxQuizReviews
          /\ \E user_answers \in QuizAnswers(questions) :
                ProcessQuizResults(questions, user_answers)
    \/ \E questions \in QuizQuestions :
          /\ SumReviews(DOMAIN spaced_repetition) + Len(questions) <= MaxQuizReviews
          /\ \E user_answers \in QuizAnswers(questions) :
                ProcessAdaptiveQuizResults(questions, user_answers)

SpecQuiz == Init /\ [][NextQuiz]_vars

\* the number of the questions from..Len(questions) that ask for word w
RECURSIVE QuestionsAbout(_, _, _)
QuestionsAbout(questions, w, from) ==
    IF from > Len(questions) THEN 0
    ELSE (IF questions[from].word_id = w THEN 1 ELSE 0) + QuestionsAbout(questions, w, from + 1)

\* the last k outcomes recorded for w are failures
LastFailures(w, k) ==
    LET o == review_history[w].outcomes
    IN  /\ Len(o) >= k
        /\ \A i \in (Len(o) - k + 1)..Len(o) : o[i] = FALSE

\* C12 (as the specification states it): a quiz returned with fewer answers
\* than questions raises no error, its unanswered questions do not score, and a
\* failed review outcome is recorded for the word of every unanswered question,
\* by the adaptive and the basic processor alike
C12_UnansweredRecordedAsFailed ==
    (last_call.op = "quiz" /\ last_call.answered < last_call.total) =>
        /\ last_call.score <= last_call.answered
        /\ \A w \in DOMAIN last_call.pre_count :
              /\ spaced_repetition[w].review_count =
                    last_call.pre_count[w] + QuestionsAbout(last_call.questions, w, 1)
              /\ LastFailures(w, QuestionsAbout(last_call.questions, w,
                                                last_call.answered + 1))

\* C12, the adaptive processor alone
C12_AdaptiveRecordsUnanswered ==
    last_call.op = "quiz" /\ last_call.processor = "adaptive" => C12_UnansweredRecordedAsFailed

----------------------------------------------------------------------------
(* Two entry points on one learner's document: UserProgress(chat_id) loads the
   file, the entry point mutates self.data, save_progress writes self.data *)

\* a save that refuses to overwrite a file that changed since it was loaded
SaveIfUnchanged(data, file, loaded) == IF file = loaded THEN data ELSE file

\* save_progress: json.dump(self.data) over the file, whatever the file holds
\* now and held when self.data was loaded
SavedFile(data, file, loaded) == data

\* UserProgress.__init__: self.data = load_progress()
Construct(p) ==
    /\ inv[p].pc = "idle"
    /\ inv' = [inv EXCEPT ![p] = [pc |-> "loaded", data |-> LoadProgress(disk),
                                  loaded |-> disk, own |-> {}]]
    /\ UNCHANGED <<sr_vars, streak_vars, disk, outbox, last_call, retention_rates, rest_vars>>

\* the entry point calls add_learned_word(word_data) on its record
InvAddLearnedWord(p, word_data) ==
    /\ inv[p].pc = "loaded"
    /\ inv' = [inv EXCEPT ![p].data = DocLearned(@, word_data, now),
                          ![p].own  = @ \cup {word_data.german}]
    /\ UNCHANGED <<sr_vars, streak_vars, disk, outbox, last_call, retention_rates, rest_vars>>

\* the entry point calls update_daily_streak() on its record
InvUpdateStreak(p) ==
    /\ inv[p].pc = "loaded"
    /\ inv' = [inv EXCEPT ![p].data = DocStreakUpdated(@, Date(now), now).doc]
    /\ UNCHANGED <<sr_vars, streak_vars, disk, outbox, last_call, retention_rates, rest_vars>>

\* the entry point calls save_progress() and ends
InvSaveProgress(p) ==
    /\ inv[p].pc = "loaded"
    /\ disk' = SavedFile(inv[p].data, disk, inv[p].loaded)
    /\ last_call' = [op |-> "save", by |-> p, data |-> inv[p].data,
                     loaded |-> inv[p].loaded, own |-> inv[p].own,
                     overwritten |-> disk]
    /\ inv' = [inv EXCEPT ![p] = [pc |-> "idle"]]
    /\ UNCHANGED <<sr_vars, streak_vars, outbox, retention_rates, rest_vars>>

NextRace ==
    \E p \in Invocations :
        \/ Construct(p)
        \/ \E word_data \in Catalog : InvAddLearnedWord(p, word_data)
        \/ InvUpdateStreak(p)
        \/ InvSaveProgress(p)

SpecRace == Init /\ [][NextRace]_vars

----------------------------------------------------------------------------
(* The splitting senders: send_message of src/multi_user_quiz.py,
   src/multi_user_reports.py and src/send_weekly_report.py *)

\* a composed message has at most MaxParagraphs paragraphs
MaxParagraphs == 3

\* max_length = 4000
max_length == 4000

\* a message is the list of its paragraphs, the parts message.split('\n\n')
\* gives; a paragraph is its number of characters, none of them whitespace
ParagraphLengths == {0, 1, 1998, 3998, 4001}

Messages == UNION {[1..n -> ParagraphLengths] : n \in 1..MaxParagraphs}

\* the length of the paragraphs from..to of message, each followed by '\n\n'
RECURSIVE LenWithSeparators(_, _, _)
LenWithSeparators(message, from, to) ==
    IF from > to THEN 0
    ELSE message[from] + 2 + LenWithSeparators(message, from + 1, to)

\* len(message): the paragraphs joined by '\n\n'
MessageLen(message) == LenWithSeparators(message, 1, Len(message)) - 2

\* len(current_message.strip()) for the paragraphs from..to: what is left
\* between the first and the last paragraph that is not empty
StrippedLen(message, from, to) ==
    LET full == {i \in from..to : message[i] > 0}
        lo   == CHOOSE i \in full : \A j \in full : i <= j
        hi   == CHOOSE i \in full : \A j \in full : j <= i
    IN  IF full = {} THEN 0 ELSE LenWithSeparators(message, lo, hi) - 2

\* messages.append(current_message.strip()) for the paragraphs from..to
Chunk(message, from, to) ==
    [from |-> from, to |-> to, len |-> StrippedLen(message, from, to)]

\* the loop over parts from paragraph i on; current_message holds the
\* paragraphs from..i-1 (none when from = i)
RECURSIVE SplitParts(_, _, _, _)
SplitParts(message, from, i, messages) ==
    IF i > Len(message)
    THEN IF from < i THEN Append(messages, Chunk(message, from, i - 1)) ELSE messages
    ELSE IF LenWithSeparators(message, from, i) <= max_length
         THEN SplitParts(message, from, i + 1, messages)
         ELSE SplitParts(message, i, i + 1,
                         IF from < i THEN Append(messages, Chunk(message, from, i - 1))
                                     ELSE messages)

\* the list `messages` send_message builds for a message
SplitMessage(message) ==
    IF MessageLen(message) <= max_length
    THEN <<[from |-> 1, to |-> Len(message), len |-> MessageLen(message)]>>
    ELSE SplitParts(message, 1, 1, <<>>)

\* send_message(chat_id, message), once in a run of the sender: every chunk is
\* posted, oks[i] is the transport's answer to chunk i
SendMessage(message, oks) ==
    LET messages == SplitMessage(message)
    IN  /\ last_call.op = "none"
        /\ Len(oks) = Len(messages)
        /\ posted' = [i \in 1..Len(messages) |->
                         [from |-> messages[i].from, to |-> messages[i].to,
                          len |-> messages[i].len, ok |-> oks[i]]]
        /\ last_call' = [op |-> "send_message", message |-> message,
                         success |-> \A i \in 1..Len(oks) : oks[i]]
        /\ UNCHANGED <<sr_vars, streak_vars, disk, outbox, retention_rates, inv,
                       active_users>>

NextSplit ==
    \E message \in Messages :
        \E oks \in UNION {[1..n -> BOOLEAN] : n \in 0..Len(message)} :
            SendMessage(message, oks)

SpecSplit == Init /\ [][NextSplit]_vars

\* the chunks are whole paragraphs, in the order of the message, none left out
InParagraphOrder ==
    /\ posted # <<>> => posted[1].from = 1 /\ posted[Len(posted)].to = Len(last_call.message)
    /\ \A i \in 1..Len(posted) : posted[i].from <= posted[i].to
    /\ \A i \in 1..(Len(posted) - 1) : posted[i + 1].from = posted[i].to + 1

\* C14 (as the specification states it): whatever the composed message, every
\* chunk passed to the transport has at most 4000 characters, the cuts are at
\* paragraph boundaries and the chunks keep the order of the paragraphs
C14_ChunksWithinLimitInOrder ==
    last_call.op = "send_message" =>
        /\ \A i \in 1..Len(posted) : posted[i].len <= max_length
        /\ InParagraphOrder

\* C14, the part that holds: the chunks are the paragraphs in order, and a
\* chunk is over the limit only when it is one paragraph that is itself over it
C14_OnlyLongParagraphsOverLimit ==
    last_call.op = "send_message" =>
        /\ InParagraphOrder
        /\ \A i \in 1..Len(posted) :
              posted[i].len > max_length =>
                 \E k \in posted[i].from..posted[i].to :
                    /\ last_call.message[k] > max_length
                    /\ \A j \in (posted[i].from..posted[i].to) \ {k} : last_call.message[j] = 0

----------------------------------------------------------------------------
(* GermanWordBot.run, the single-user lesson step (src/send_word.py), with the
   enhanced modules present *)

\* preferences['words_per_day'] of a learner who never changed it
words_per_day == 3

\* the single-user step is followed until the transport accepted MaxSent lessons
MaxSent == 3

\* get_words_for_review on a document: the word_data of the entries that are due
DueForReview(d, t) ==
    {d.spaced_repetition[w].word_data :
        w \in {x \in DOMAIN d.spaced_repetition : d.spaced_repetition[x].next_review <= t}}

\* get_daily_words_enhanced: every list it can return. With probability 0.25
\* the last selected word is replaced by a word that is due for review.
DailyWordsEnhanced(d, t) ==
    LET learned_words == AllLearned(d)
        selected      == {[i \in 1..Len(s) |-> WordData(s[i])] :
                            s \in ProgressiveWords(d.current_level, words_per_day,
                                                   learned_words)}
        review_words  == DueForReview(d, t)
    IN  selected \cup
        {[s EXCEPT ![Len(s)] = r] :
            s \in {x \in selected : x # <<>> /\ learned_words # {}}, r \in review_words}

\* a run that saves whatever the transport answered
SavedRegardless(data, file, success) == data

\* C29: a run that marks the words as learned before it knows the transport's
\* answer
LearnedBeforeSend(d, daily_words, success, t) == DocLearnedAll(d, daily_words, t)

\* run: "if success:" for word in daily_words: add_learned_word(word); the
\* record is left alone when the send failed
LearnedAfterSend(d, daily_words, success, t) ==
    IF success THEN DocLearnedAll(d, daily_words, t) ELSE d

\* what the file holds when run returns: save_progress is called on the
\* success branch alone
FileAfterRun(data, file, success) == IF success THEN data ELSE file

\* run(): the record is loaded when the bot is constructed; ok is the
\* transport's answer to the lesson
Run(ok) ==
    LET loaded  == LoadProgress(disk)
        today   == Date(now)
        \* "Update daily streak", before anything is sent
        updated == DocStreakUpdated(loaded, today, now).doc
    IN  \E daily_words \in DailyWordsEnhanced(updated, now) :
           LET success == daily_words # <<>> /\ ok
               data    == LearnedAfterSend(updated, daily_words, success, now)
           IN  /\ Len(outbox) < MaxSent
               /\ disk' = FileAfterRun(data, disk, success)
               /\ outbox' = IF success
                            THEN Append(outbox,
                                   [kind |-> "lesson", date |-> today,
                                    words |-> [i \in 1..Len(daily_words) |->
                                                  daily_words[i].german]])
                            ELSE outbox
               /\ last_call' = [op |-> "run", date |-> today, time |-> now,
                                success |-> success,
                                send_failed |-> daily_words # <<>> /\ ~ok,
                                reviewed |-> {daily_words[i].german : i \in 1..Len(daily_words)}
                                                \cap AllLearned(loaded),
                                pre_file |-> disk, loaded |-> loaded, data |-> data]
               /\ UNCHANGED <<sr_vars, streak_vars, retention_rates, env_vars>>

NextRun ==
    \/ \E ok \in BOOLEAN : Run(ok)
    \/ LessonTick

SpecRun == Init /\ [][NextRun]_vars

\* C15 (as the specification states it): when the send fails, the streak
\* update made in memory before sending is written to the persisted document
C15_AsStated ==
    (last_call.op = "run" /\ last_call.send_failed) =>
        LoadProgress(disk).streak = last_call.data.streak

\* C15: when the send fails, run returns failure, nothing is rolled back in
\* memory (the record still holds the streak update for today), and nothing is
\* saved: the persisted document is what it was before the run
C15_FailedSendSavesNothing ==
    (last_call.op = "run" /\ last_call.send_failed) =>
        /\ ~last_call.success
        /\ last_call.data.streak.last_lesson_date = last_call.date
        /\ last_call.data =
              DocStreakUpdated(last_call.loaded, last_call.date, last_call.time).doc
        /\ disk = last_call.pre_file

\* C15: a failed send after a streak update that changed the record
C15_Witness ==
    /\ last_call.op = "run"
    /\ last_call.send_failed
    /\ last_call.data.streak.daily_streak = 2
    /\ last_call.loaded.streak.daily_streak = 1
    /\ disk = last_call.pre_file
    /\ disk.streak.daily_streak = 1

----------------------------------------------------------------------------
(* The user registry active_users.json and the daily batch
   (src/multi_user_bot.py, src/multi_user_setup.py, src/handle_new_users.py) *)

\* the chat ids that can register
Users == {"u1", "u2"}

\* a field a registry record does not carry
Absent == "absent"

Registered == {active_users[i].chat_id : i \in 1..Len(active_users)}

\* the registry with self.active_users[chat_id][field] = value
Changed(chat_id, field, value) ==
    [i \in 1..Len(active_users) |->
        IF active_users[i].chat_id = chat_id
        THEN [active_users[i] EXCEPT ![field] = value]
        ELSE active_users[i]]

\* what the registry actions leave alone
registry_frame == <<sr_vars, streak_vars, disk, outbox, last_call, retention_rates,
                    inv, posted>>

\* MultiUserGermanBot.register_user and NewUserHandler.register_new_user: the
\* record carries 'active': True and a 'first_name'
RegisterUser(chat_id) ==
    /\ chat_id \notin Registered
    /\ active_users' = Append(active_users,
                         [chat_id |-> chat_id, active |-> "true", status |-> Absent,
                          first_name |-> TRUE])
    /\ UNCHANGED registry_frame

\* MultiUserManager.register_user(chat_id), as /start calls it: the record
\* carries 'status': 'active', and neither 'active' nor 'first_name'
ManagerRegisterUser(chat_id) ==
    /\ chat_id \notin Registered
    /\ active_users' = Append(active_users,
                         [chat_id |-> chat_id, active |-> Absent, status |-> "active",
                          first_name |-> FALSE])
    /\ UNCHANGED registry_frame

\* MultiUserManager.deactivate_user(chat_id), as /stop calls it
DeactivateUser(chat_id) ==
    /\ chat_id \in Registered
    /\ active_users' = Changed(chat_id, "status", "inactive")
    /\ UNCHANGED registry_frame

\* NewUserHandler.handle_unsubscribe
HandleUnsubscribe(chat_id) ==
    /\ chat_id \in Registered
    /\ active_users' = Changed(chat_id, "active", "false")
    /\ UNCHANGED registry_frame

\* NewUserHandler.handle_resubscribe
HandleResubscribe(chat_id) ==
    /\ chat_id \in Registered
    /\ active_users' = Changed(chat_id, "active", "true")
    /\ UNCHANGED registry_frame

\* the users a registry record marks as active, by 'active' or, in a record
\* without it, by 'status'
ActiveUsers ==
    {active_users[i].chat_id :
        i \in {k \in 1..Len(active_users) :
                 \/ active_users[k].active = "true"
                 \/ active_users[k].active = Absent /\ active_users[k].status = "active"}}

\* the users whose /stop was handled: deactivate_user wrote 'status': 'inactive'
StoppedUsers ==
    {active_users[i].chat_id :
        i \in {k \in 1..Len(active_users) : active_users[k].status = "inactive"}}

\* the loop of send_daily_lessons_to_all from record i on; oks[chat_id] is what
\* send_daily_lesson_to_user(chat_id) returns. The success log reads
\* user_info['first_name'].
RECURSIVE LessonsLoop(_, _, _)
LessonsLoop(i, oks, st) ==
    IF i > Len(active_users) THEN st
    ELSE LET user_info == active_users[i]
             tried     == [st EXCEPT !.attempted = @ \cup {user_info.chat_id}]
         IN  IF user_info.active # "true" THEN LessonsLoop(i + 1, oks, st)
             ELSE IF ~oks[user_info.chat_id] THEN LessonsLoop(i + 1, oks, tried)
             ELSE IF ~user_info.first_name
                  THEN [tried EXCEPT !.raised = TRUE]
                  ELSE LessonsLoop(i + 1, oks,
                                   [tried EXCEPT !.delivered = @ \cup {user_info.chat_id}])

\* send_daily_lessons_to_all(): u['active'] is read of every record before the
\* loop starts. What a delivery does to the user's document is the matter of
\* SendDailyLessonToUser; here it is the flag it returns.
SendDailyLessonsToAll(oks) ==
    LET start == [raised |-> FALSE, attempted |-> {}, delivered |-> {}]
        st    == IF \E i \in 1..Len(active_users) : active_users[i].active = Absent
                 THEN [start EXCEPT !.raised = TRUE]
                 ELSE LessonsLoop(1, oks, start)
    IN  /\ last_call' = [op |-> "batch", raised |-> st.raised, active |-> ActiveUsers,
                         stopped |-> StoppedUsers,
                         attempted |-> st.attempted, delivered |-> st.delivered]
        /\ UNCHANGED <<sr_vars, streak_vars, disk, outbox, retention_rates, env_vars>>

NextBatch ==
    \/ \E chat_id \in Users :
          \/ RegisterUser(chat_id)
          \/ ManagerRegisterUser(chat_id)
          \/ DeactivateUser(chat_id)
          \/ HandleUnsubscribe(chat_id)
          \/ HandleResubscribe(chat_id)
    \/ \E oks \in [Users -> BOOLEAN] : SendDailyLessonsToAll(oks)

SpecBatch == Init /\ [][NextBatch]_vars

\* C16 (as the specification states it): whatever the registration paths wrote
\* to the registry, the daily batch runs to completion and attempts every
\* active user
C16_BatchAttemptsEveryActiveUser ==
    last_call.op = "batch" =>
        /\ ~last_call.raised
        /\ last_call.attempted = last_call.active

----------------------------------------------------------------------------
(* The record under its public mutation operations (src/user_progress.py) *)

\* add_learned_word(word_data) on the record in memory, with the call recorded
LearnWord(word_data) ==
    LET word_id == word_data.german
        v       == LearnedAdded(VocabularyFields, word_data, now)
    IN  /\ words_by_level' = v.words_by_level
        /\ total_words_learned' = v.total_words_learned
        /\ spaced_repetition' = v.spaced_repetition
        /\ review_history' =
              IF v # VocabularyFields
              THEN [w \in DOMAIN review_history \cup {word_id} |->
                      IF w = word_id THEN [outcomes |-> <<>>, time |-> now]
                                     ELSE review_history[w]]
              ELSE review_history
        /\ last_call' =
              [op |-> "learn", word_id |-> word_id,
               was_learned |-> InList(word_id, words_by_level[word_data.level]),
               review_count |-> IF word_id \in DOMAIN spaced_repetition
                                THEN spaced_repetition[word_id].review_count ELSE 0]
        /\ UNCHANGED <<now, streak_vars, disk, outbox, retention_rates, env_vars>>

\* update_daily_streak(): the lesson date is today
UpdateDailyStreak == UpdateStreak(Date(now))

NextRecord ==
    \/ \E word_data \in Catalog : LearnWord(word_data)
    \/ \E word_id \in WordIds, success \in BOOLEAN, delta \in {0, 1} :
          /\ now + delta <= MaxNow
          /\ SumReviews(DOMAIN spaced_repetition) < MaxQuizReviews
          /\ UpdateReviewResult(word_id, success, delta)
    \/ Tick
    \/ UpdateDailyStreak

SpecRecord == Init /\ [][NextRecord]_vars

RECURSIVE SumLearned(_)
SumLearned(S) ==
    IF S = {} THEN 0
    ELSE LET l == CHOOSE x \in S : TRUE
         IN  Len(words_by_level[l]) + SumLearned(S \ {l})

\* C17: in every state reached from a fresh record by add_learned_word,
\* update_review_result and update_daily_streak, total_words_learned is the sum
\* over the four levels of the number of learned word identifiers
C17_TotalIsSumOfLevels ==
    total_words_learned = SumLearned(Levels)

\* C17: both words are learned, one per level, and the last call marked a word
\* as learned that was learned already
C17_Witness ==
    /\ total_words_learned = 2
    /\ Len(words_by_level["A1"]) = 1
    /\ Len(words_by_level["A2"]) = 1
    /\ last_call.op = "learn"
    /\ last_call.was_learned

\* C18: add_learned_word for a word that is in the learned list of its level
\* changes neither its ReviewState (review_count, success_rate, next_review)
\* nor the learned lists nor total_words_learned
C18_RelearnKeepsReviewState ==
    [][\A word_data \in Catalog :
          (InList(word_data.german, words_by_level[word_data.level]) /\ LearnWord(word_data))
             => UNCHANGED <<spaced_repetition, words_by_level, total_words_learned>>]_vars

\* C18: the last call marked as learned a word that was learned already and
\* had review outcomes recorded, and the outcomes are still counted
C18_Witness ==
    /\ last_call.op = "learn"
    /\ last_call.was_learned
    /\ last_call.review_count = 2
    /\ spaced_repetition[last_call.word_id].review_count = 2
    /\ spaced_repetition[last_call.word_id].success_rate = Rat(1, 2)

----------------------------------------------------------------------------
(* AdaptiveQuizSystem.get_word_mastery_level (src/adaptive_quiz_system.py) *)

\* a word has at most MaxTests tests taken
MaxTests == 6

\* retention_rate is a percentage
Rates == 0..100

\* the word is not in retention_rates
NoRetention == [tests_taken |-> -1, retention_rate |-> 0]

\* the entries retention_rates can hold for a word
RetentionData == [tests_taken : 0..MaxTests, retention_rate : Rates]

\* C19: the ladder applied from the first test on
LadderFromFirstTest(word_retention) ==
    LET tests_taken    == word_retention.tests_taken
        retention_rate == word_retention.retention_rate
    IN  IF word_retention = NoRetention THEN 1
        ELSE IF tests_taken = 0 THEN 1
        ELSE IF retention_rate >= 90 /\ tests_taken >= 5 THEN 5
        ELSE IF retention_rate >= 80 THEN 4
        ELSE IF retention_rate >= 70 THEN 3
        ELSE IF retention_rate >= 50 THEN 2
        ELSE 1

\* C20: a ladder whose top step needs a retention rate below 100
TopStepBelowFull(word_retention) ==
    LET tests_taken    == word_retention.tests_taken
        retention_rate == word_retention.retention_rate
    IN  IF word_retention = NoRetention THEN 1
        ELSE IF tests_taken = 0 THEN 1
        ELSE IF tests_taken < 3 THEN (IF retention_rate >= 50 THEN 2 ELSE 1)
        ELSE IF retention_rate >= 90 /\ retention_rate < 100 /\ tests_taken >= 5 THEN 5
        ELSE IF retention_rate >= 80 /\ retention_rate < 100 THEN 4
        ELSE IF retention_rate >= 70 THEN 3
        ELSE IF retention_rate >= 50 THEN 2
        ELSE 1

\* get_word_mastery_level for a word whose retention entry is word_retention
MasteryLevel(word_retention) ==
    LET tests_taken    == word_retention.tests_taken
        retention_rate == word_retention.retention_rate
    IN  IF word_retention = NoRetention THEN 1
        ELSE IF tests_taken = 0 THEN 1
        ELSE IF tests_taken < 3 THEN (IF retention_rate >= 50 THEN 2 ELSE 1)
        ELSE IF retention_rate >= 90 /\ tests_taken >= 5 THEN 5
        ELSE IF retention_rate >= 80 THEN 4
        ELSE IF retention_rate >= 70 THEN 3
        ELSE IF retention_rate >= 50 THEN 2
        ELSE 1

\* get_word_mastery_level(word_id), with what it read and what it returned
GetWordMasteryLevel(word_retention) ==
    /\ last_call' = [op |-> "mastery", word_retention |-> word_retention,
                     level |-> MasteryLevel(word_retention)]
    /\ UNCHANGED <<sr_vars, streak_vars, disk, outbox, retention_rates, env_vars>>

NextMastery ==
    \E word_retention \in RetentionData \cup {NoRetention} :
        GetWordMasteryLevel(word_retention)

SpecMastery == Init /\ [][NextMastery]_vars

\* C19 (as the specification states it): no data or no test gives 1, and from
\* the first test on: 5 for >= 90% with >= 5 tests, else 4 for >= 80%, else 3
\* for >= 70%, else 2 for >= 50%, else 1
C19_AsStated ==
    last_call.op = "mastery" =>
        LET tests_taken    == last_call.word_retention.tests_taken
            retention_rate == last_call.word_retention.retention_rate
            level          == last_call.level
        IN  /\ level \in 1..5
            /\ tests_taken <= 0 => level = 1
            /\ tests_taken >= 1 =>
                  /\ level = 5 <=> (retention_rate >= 90 /\ tests_taken >= 5)
                  /\ level = 4 <=> (retention_rate >= 80 /\ ~(retention_rate >= 90 /\ tests_taken >= 5))
                  /\ level = 3 <=> (retention_rate >= 70 /\ retention_rate < 80)
                  /\ level = 2 <=> (retention_rate >= 50 /\ retention_rate < 70)
                  /\ level = 1 <=> retention_rate < 50

\* C19: no data or no test gives 1; after 1 or 2 tests the level is 2 for
\* >= 50% and 1 below; from 3 tests on: 5 for >= 90% with >= 5 tests, else 4
\* for >= 80%, else 3 for >= 70%, else 2 for >= 50%, else 1; always within 1..5
C19_MasteryMapping ==
    last_call.op = "mastery" =>
        LET tests_taken    == last_call.word_retention.tests_taken
            retention_rate == last_call.word_retention.retention_rate
            level          == last_call.level
        IN  /\ level \in 1..5
            /\ tests_taken <= 0 => level = 1
            /\ tests_taken \in {1, 2} =>
                  /\ level = 2 <=> retention_rate >= 50
                  /\ level = 1 <=> retention_rate < 50
            /\ tests_taken >= 3 =>
                  /\ level = 5 <=> (retention_rate >= 90 /\ tests_taken >= 5)
                  /\ level = 4 <=> (retention_rate >= 80 /\ ~(retention_rate >= 90 /\ tests_taken >= 5))
                  /\ level = 3 <=> (retention_rate >= 70 /\ retention_rate < 80)
                  /\ level = 2 <=> (retention_rate >= 50 /\ retention_rate < 70)
                  /\ level = 1 <=> retention_rate < 50

\* C19: two tests, both answered correctly, give level 2
C19_Witness ==
    /\ last_call.op = "mastery"
    /\ last_call.word_retention = [tests_taken |-> 2, retention_rate |-> 100]
    /\ last_call.level = 2

\* C20: for the tests_taken of the call, no lower retention rate gives a
\* higher mastery level and no higher retention rate gives a lower one
C20_MonotoneInRetention ==
    (last_call.op = "mastery" /\ last_call.word_retention # NoRetention) =>
        \A r \in Rates :
            LET other == MasteryLevel([last_call.word_retention EXCEPT !.retention_rate = r])
            IN  /\ r <= last_call.word_retention.retention_rate => other <= last_call.level
                /\ r >= last_call.word_retention.retention_rate => other >= last_call.level

\* C20: a call that returned the top level, which a lower rate does not reach
C20_Witness ==
    /\ last_call.op = "mastery"
    /\ last_call.word_retention = [tests_taken |-> 5, retention_rate |-> 90]
    /\ last_call.level = 5
    /\ MasteryLevel([tests_taken |-> 5, retention_rate |-> 89]) = 4

----------------------------------------------------------------------------
(* Streak updates on dated lessons, call by call (src/streak_manager.py) *)

\* at most MaxCalls update_streak calls are followed
MaxCalls == 4

\* the calls made so far: each with its lesson date and the streak_info it returned
StreakCalls == IF last_call.op = "update_streak" THEN last_call.calls ELSE <<>>

\* update_streak(lesson_date), and what the caller sees of it
DatedUpdateStreak(lesson_date) ==
    /\ Len(StreakCalls) < MaxCalls
    /\ StreakRecorded(lesson_date)
    /\ last_call' = [op    |-> "update_streak",
                     calls |-> Append(StreakCalls, [lesson_date |-> lesson_date,
                                                    info        |-> streak_info'])]
    /\ UNCHANGED <<sr_vars, disk, outbox, retention_rates, env_vars>>

NextDays == \E lesson_date \in LessonDates : DatedUpdateStreak(lesson_date)

SpecDays == Init /\ [][NextDays]_vars

\* the record has seen exactly three calls, dated on three consecutive days
ThreeConsecutiveDays ==
    /\ Len(StreakCalls) = 3
    /\ StreakCalls[2].lesson_date = StreakCalls[1].lesson_date + 1
    /\ StreakCalls[3].lesson_date = StreakCalls[2].lesson_date + 1

\* C21: from a brand-new record, three streak updates dated on three consecutive
\* calendar days leave current_streak = 3 and longest_streak = 3, and none of the
\* three calls reports a milestone.
C21_ThreeConsecutiveDays ==
    ThreeConsecutiveDays =>
        /\ daily_streak = 3
        /\ longest_streak = 3
        /\ \A i \in 1..3 : StreakCalls[i].info.milestone_reached = NoMilestone

\* the third of three consecutive days: every call continued the streak
C21_Witness ==
    /\ ThreeConsecutiveDays
    /\ \A i \in 1..3 : StreakCalls[i].info.streak_continued
    /\ total_study_days = 3
    /\ streak_milestones = <<>>

----------------------------------------------------------------------------
(* Loading the learner document, whatever the file holds (src/user_progress.py) *)

\* a document written before the streak and schedule fields existed
OldDocument == [current_level |-> "A2", total_words_learned |-> 0]

\* something other than save_progress writes the file
FileReplaced(file) ==
    /\ disk # file
    /\ disk' = file
    /\ UNCHANGED <<sr_vars, streak_vars, outbox, last_call, retention_rates, env_vars>>

\* the file is removed
FileRemoved ==
    /\ disk # NoDocument
    /\ disk' = NoDocument
    /\ UNCHANGED <<sr_vars, streak_vars, outbox, last_call, retention_rates, env_vars>>

\* UserProgress(chat_id): self.data = load_progress(); an exception that leaves
\* load_progress leaves the constructor too, and there is no object
ConstructUserProgress(p) ==
    LET outcome == LoadOutcome(disk)
    IN  /\ inv[p].pc = "idle"
        /\ last_call' = [op |-> "load", file |-> disk, outcome |-> outcome]
        /\ inv' = IF outcome.raises = "none"
                  THEN [inv EXCEPT ![p] = [pc |-> "loaded", data |-> outcome.data,
                                           loaded |-> disk, own |-> {}]]
                  ELSE inv
        /\ UNCHANGED <<sr_vars, streak_vars, disk, outbox, retention_rates, rest_vars>>

NextLoad ==
    \/ \E damage \in Damages : FileReplaced([damage |-> damage])
    \/ FileReplaced(OldDocument)
    \/ FileRemoved
    \/ ConstructUserProgress("command")
    \/ \E word_data \in Catalog : InvAddLearnedWord("command", word_data)
    \/ InvUpdateStreak("command")
    \/ InvSaveProgress("command")

SpecLoad == Init /\ [][NextLoad]_vars

\* C22: loading a learner whose persisted document is missing or cannot be
\* parsed never raises and yields the default first-use record: level A1, no
\* learned words, all streak counters 0, one freeze credit, grace period
\* inactive, empty review schedule and empty achievements list.
C22_LoadFallsBackToDefault ==
    (/\ last_call.op = "load"
     /\ last_call.file = NoDocument \/ Damaged(last_call.file)) =>
        /\ last_call.outcome.raises = "none"
        /\ LET data == last_call.outcome.data
           IN  /\ data.current_level = "A1"
               /\ AllLearned(data) = {}
               /\ data.total_words_learned = 0
               /\ data.streak.daily_streak = 0
               /\ data.streak.longest_streak = 0
               /\ data.streak.total_study_days = 0
               /\ data.streak.streak_freeze_used = 0
               /\ data.streak.streak_freeze_available = 1
               /\ data.streak.grace_period_active = FALSE
               /\ data.grace_period_expires = NoTime
               /\ data.spaced_repetition = <<>>
               /\ data.streak.achievements = <<>>
               /\ data.streak.streak_milestones = <<>>

\* the file holds a JSON list: the load logs the error and the learner starts
\* over from the default record
C22_Witness ==
    /\ last_call.op = "load"
    /\ last_call.file = [damage |-> "json_list"]
    /\ last_call.outcome.logged
    /\ inv["command"].pc = "loaded"
    /\ inv["command"].data = DefaultDocument

----------------------------------------------------------------------------
(* DifficultyAnalyzer (src/difficulty_analyzer.py). A string is the sequence
   of its characters; the letters with diacritics and the IPA symbols are
   named: "a_uml" is a-umlaut, "eszett" the sharp s, "stress1" and "stress2"
   the primary and secondary stress marks, "long" the length mark. A float is
   the rational number it stands for. *)

LowerCase ==
    <<"a", "b", "c", "d", "e", "f", "g", "h", "i", "j", "k", "l", "m", "n", "o",
    "p", "q", "r", "s", "t", "u", "v", "w", "x", "y", "z", "a_uml", "o_uml",
    "u_uml">>

UpperCase ==
    <<"A", "B", "C", "D", "E", "F", "G", "H", "I", "J", "K", "L", "M", "N", "O",
    "P", "Q", "R", "S", "T", "U", "V", "W", "X", "Y", "Z", "A_uml", "O_uml",
    "U_uml">>

\* c.isupper()
IsUpper(c) == \E i \in 1..Len(UpperCase) : UpperCase[i] = c

\* str.lower()
ToLower(str) ==
    [i \in 1..Len(str) |->
        IF IsUpper(str[i])
        THEN LowerCase[CHOOSE k \in 1..Len(UpperCase) : UpperCase[k] = str[i]]
        ELSE str[i]]

\* pattern in str
Contains(pattern, str) ==
    \E i \in 1..(Len(str) - Len(pattern) + 1) :
        SubSeq(str, i, i + Len(pattern) - 1) = pattern

\* str.startswith(prefix)
StartsWith(str, prefix) ==
    Len(prefix) <= Len(str) /\ SubSeq(str, 1, Len(prefix)) = prefix

\* str.endswith(suffix)
EndsWith(str, suffix) ==
    Len(suffix) <= Len(str) /\ SubSeq(str, Len(str) - Len(suffix) + 1, Len(str)) = suffix

\* str.count(c) for a character c
CountOf(c, str) == Cardinality({i \in 1..Len(str) : str[i] = c})

\* word.get(key, default)
Get(word, key, default) == IF key \in DOMAIN word THEN word[key] ELSE default

\* the float n / 10
Tenths(n) == Rat(n, 10)

RatLeq(a, b) == a.num * b.den <= b.num * a.den

RatMin(a, b) == IF RatLeq(a, b) THEN a ELSE b

RatMax(a, b) == IF RatLeq(a, b) THEN b ELSE a

RatAdd(a, b) == Rat(a.num * b.den + b.num * a.den, a.den * b.den)

\* a - b, for b <= a
RatSub(a, b) == Rat(a.num * b.den - b.num * a.den, a.den * b.den)

RatMul(a, b) == Rat(a.num * b.num, a.den * b.den)

\* self.difficulty_weights
difficulty_weights ==
    [length              |-> Rat(15, 100),
     phonetic_complexity |-> Rat(20, 100),
     frequency           |-> Rat(25, 100),
     grammar_complexity  |-> Rat(15, 100),
     cognate_similarity  |-> Rat(10, 100),
     syllable_count      |-> Rat(10, 100),
     special_characters  |-> Rat(5, 100)]

\* the keys of analysis['factors'] in insertion order
FactorOrder ==
    <<"length", "phonetic_complexity", "frequency", "grammar_complexity",
      "cognate_similarity", "syllable_count", "special_characters">>

\* self.difficult_sounds
difficult_sounds ==
    <<<<"c_ced">>, <<"x">>, <<"esh">>, <<"ezh">>, <<"open_o", "small_i">>,
      <<"a", "small_i">>, <<"a", "upsilon">>, <<"small_y">>, <<"oe">>,
      <<"epsilon", "long">>, <<"o_slash", "long">>>>

\* self.cognate_patterns: (English ending, German ending) as the code names them
cognate_patterns ==
    <<[ger_pattern |-> <<"t", "i", "o", "n">>, eng_pattern |-> <<"t", "i", "o", "n">>],
      [ger_pattern |-> <<"l", "y">>,           eng_pattern |-> <<"l", "i", "c", "h">>],
      [ger_pattern |-> <<"e", "r">>,           eng_pattern |-> <<"e", "r">>],
      [ger_pattern |-> <<"i", "n", "g">>,      eng_pattern |-> <<"u", "n", "g">>],
      [ger_pattern |-> <<"f", "u", "l">>,      eng_pattern |-> <<"v", "o", "l", "l">>],
      [ger_pattern |-> <<"l", "e", "s", "s">>, eng_pattern |-> <<"l", "o", "s">>],
      [ger_pattern |-> <<"n", "e", "s", "s">>, eng_pattern |-> <<"h", "e", "i", "t">>]>>

\* self.complex_grammar
complex_grammar ==
    [separable_verbs |-> {<<"a", "b">>, <<"a", "n">>, <<"a", "u", "f">>, <<"a", "u", "s">>,
                          <<"b", "e", "i">>, <<"e", "i", "n">>, <<"m", "i", "t">>,
                          <<"n", "a", "c", "h">>, <<"v", "o", "r">>, <<"z", "u">>},
     modal_verbs     |-> {<<"k", "o_uml", "n", "n", "e", "n">>,
                          <<"m", "u_uml", "s", "s", "e", "n">>,
                          <<"s", "o", "l", "l", "e", "n">>,
                          <<"w", "o", "l", "l", "e", "n">>,
                          <<"d", "u_uml", "r", "f", "e", "n">>,
                          <<"m", "o_uml", "g", "e", "n">>},
     irregular_verbs |-> {<<"s", "e", "i", "n">>, <<"h", "a", "b", "e", "n">>,
                          <<"w", "e", "r", "d", "e", "n">>, <<"g", "e", "h", "e", "n">>,
                          <<"k", "o", "m", "m", "e", "n">>, <<"s", "e", "h", "e", "n">>,
                          <<"w", "i", "s", "s", "e", "n">>}]

\* special_chars = ['a_uml', 'o_uml', 'u_uml', 'eszett']
special_chars == {"a_uml", "o_uml", "u_uml", "eszett"}

\* calculate_length_difficulty
LengthDifficulty(word) ==
    LET length == Len(word)
    IN  IF length <= 4 THEN Tenths(10)
        ELSE IF length <= 7 THEN Tenths(30)
        ELSE IF length <= 10 THEN Tenths(60)
        ELSE Tenths(90)

\* calculate_phonetic_difficulty
PhoneticDifficulty(word) ==
    LET pronunciation == Get(word, "pronunciation", <<>>)
        german_word   == ToLower(word.german)
        difficult_patterns == {<<"s", "c", "h">>, <<"t", "s", "c", "h">>, <<"p", "f">>,
                               <<"t", "z">>, <<"c", "h">>, <<"c", "k">>, <<"q", "u">>}
        patterns      == Cardinality({pattern \in difficult_patterns :
                                         Contains(pattern, german_word)})
        specials      == Cardinality({char \in special_chars :
                                         Contains(<<char>>, german_word)})
        sounds        == Cardinality({i \in 1..Len(difficult_sounds) :
                                         Contains(difficult_sounds[i], pronunciation)})
        stress_markers == CountOf("stress1", pronunciation) + CountOf("stress2", pronunciation)
        length_markers == CountOf("long", pronunciation)
    IN  IF pronunciation = <<>>
        THEN RatMin(Tenths(100), Tenths(30 + 10 * patterns + 5 * specials))
        ELSE RatMin(Tenths(100),
                    Tenths(20 + 15 * sounds + 5 * stress_markers + 3 * length_markers))

\* calculate_frequency_difficulty
FrequencyDifficulty(word) ==
    LET frequency == Get(word, "frequency", 5)
    IN  IF frequency = 1 THEN Tenths(10)
        ELSE IF frequency <= 3 THEN Tenths(30)
        ELSE IF frequency <= 6 THEN Tenths(50)
        ELSE IF frequency <= 8 THEN Tenths(70)
        ELSE Tenths(90)

\* calculate_grammar_difficulty
GrammarDifficulty(word) ==
    LET word_type   == Get(word, "word_type", "noun")
        german_word == word.german
        capital_count == Cardinality({i \in 1..Len(german_word) : IsUpper(german_word[i])})
        complex_endings == {<<"l", "i", "c", "h">>, <<"i", "s", "c", "h">>,
                            <<"h", "a", "f", "t">>, <<"s", "a", "m">>, <<"b", "a", "r">>}
        extra == CASE word_type = "verb" ->
                        (IF \E prefix \in complex_grammar.separable_verbs :
                                StartsWith(german_word, prefix) THEN 20 ELSE 0)
                      + (IF german_word \in complex_grammar.modal_verbs THEN 15 ELSE 0)
                      + (IF german_word \in complex_grammar.irregular_verbs THEN 20 ELSE 0)
                   [] word_type = "noun" ->
                        (IF Len(german_word) > 10 /\ IsUpper(german_word[1]) THEN 15 ELSE 0)
                      + (IF capital_count > 1 THEN 10 ELSE 0)
                   [] word_type = "adjective" ->
                        (IF \E ending \in complex_endings : EndsWith(german_word, ending)
                         THEN 10 ELSE 0)
                   [] OTHER -> 0
    IN  RatMin(Tenths(100), Tenths(20 + extra))

Min3(a, b, c) == Min(a, Min(b, c))

\* one row of the matrix: row[j + 1] is matrix[i][j], prev the row of i - 1
RECURSIVE MatrixRow(_, _, _, _, _)
MatrixRow(prev, char, str2, row, j) ==
    IF j > Len(str2) THEN row
    ELSE LET cost == IF char = str2[j] THEN 0 ELSE 1
         IN  MatrixRow(prev, char, str2,
                       Append(row, Min3(prev[j + 1] + 1, row[j] + 1, prev[j] + cost)),
                       j + 1)

\* matrix[len(str1)][len(str2)], row by row from the row of i - 1
RECURSIVE Distance(_, _, _, _)
Distance(str1, str2, prev, i) ==
    \* the row of i - 1 is complete when the row of i is filled
    IF i <= Len(str1) /\ Len(prev) = Len(str2) + 1
    THEN Distance(str1, str2, MatrixRow(prev, str1[i], str2, <<i>>, 1), i + 1)
    ELSE prev[Len(str2) + 1]

\* calculate_string_similarity
StringSimilarity(str1, str2) ==
    IF Len(str1) = 0 THEN (IF Len(str2) = 0 THEN Rat(0, 1) ELSE Rat(1, 1))
    ELSE IF Len(str2) = 0 THEN Rat(1, 1)
    ELSE LET max_len  == IF Len(str1) >= Len(str2) THEN Len(str1) ELSE Len(str2)
             distance == Distance(str1, str2, [j \in 1..(Len(str2) + 1) |-> j - 1], 1)
         IN  \* max(0.0, 1.0 - distance / max_len): the distance is at most max_len
             Rat(max_len - distance, max_len)

\* calculate_cognate_similarity
CognateSimilarity(german_word, english_word) ==
    LET similarity_ratio == StringSimilarity(ToLower(german_word), ToLower(english_word))
        pattern_bonus == IF \E i \in 1..Len(cognate_patterns) :
                               /\ EndsWith(german_word, cognate_patterns[i].ger_pattern)
                               /\ EndsWith(english_word, cognate_patterns[i].eng_pattern)
                         THEN Rat(2, 1) ELSE Rat(0, 1)
        similarity_reduction == RatAdd(RatMul(similarity_ratio, Rat(6, 1)), pattern_bonus)
    IN  \* max(1.0, base_difficulty - similarity_reduction), the reduction is <= 8.0
        RatMax(Rat(1, 1), RatSub(Rat(8, 1), similarity_reduction))

\* count_syllables
CountSyllables(str) ==
    LET word   == ToLower(str)
        vowels == {"a", "e", "i", "o", "u", "a_uml", "o_uml", "u_uml"}
        starts == Cardinality({i \in 1..Len(word) :
                                  /\ word[i] \in vowels
                                  /\ i = 1 \/ word[i - 1] \notin vowels})
        syllable_count == IF EndsWith(word, <<"e">>) /\ starts > 1 THEN starts - 1 ELSE starts
    IN  IF syllable_count >= 1 THEN syllable_count ELSE 1

\* calculate_syllable_difficulty
SyllableDifficulty(word) ==
    LET syllable_count == CountSyllables(word)
    IN  IF syllable_count <= 1 THEN Tenths(10)
        ELSE IF syllable_count <= 2 THEN Tenths(20)
        ELSE IF syllable_count <= 3 THEN Tenths(40)
        ELSE IF syllable_count <= 4 THEN Tenths(60)
        ELSE Tenths(80)

\* calculate_special_char_difficulty
SpecialCharDifficulty(word) ==
    LET lower == ToLower(word)
        count == Cardinality({i \in 1..Len(lower) : lower[i] \in special_chars})
    IN  RatMin(Tenths(50), Tenths(count * 15))

\* analysis['factors']
Factors(word) ==
    [length              |-> LengthDifficulty(word.german),
     phonetic_complexity |-> PhoneticDifficulty(word),
     frequency           |-> FrequencyDifficulty(word),
     grammar_complexity  |-> GrammarDifficulty(word),
     cognate_similarity  |-> CognateSimilarity(word.german, word.english),
     syllable_count      |-> SyllableDifficulty(word.german),
     special_characters  |-> SpecialCharDifficulty(word.german)]

\* total_difficulty += score * weight, over the factors from the i-th on
RECURSIVE TotalDifficulty(_, _)
TotalDifficulty(factors, i) ==
    IF i > Len(FactorOrder) THEN Rat(0, 1)
    ELSE RatAdd(RatMul(factors[FactorOrder[i]], difficulty_weights[FactorOrder[i]]),
                TotalDifficulty(factors, i + 1))

\* the factor scores from the i-th on, added up
RECURSIVE SumOfScores(_, _)
SumOfScores(factors, i) ==
    IF i > Len(FactorOrder) THEN Rat(0, 1)
    ELSE RatAdd(factors[FactorOrder[i]], SumOfScores(factors, i + 1))

\* C23: an overall score that is the plain sum of the factor scores
PlainSum(factors) == SumOfScores(factors, 1)

\* analysis['overall_difficulty'] = min(10.0, max(1.0, total_difficulty))
OverallDifficulty(factors) ==
    RatMin(Rat(10, 1), RatMax(Rat(1, 1), TotalDifficulty(factors, 1)))

\* get_difficulty_level
DifficultyLevel(score) ==
    IF RatLeq(score, Rat(25, 10)) THEN "Very Easy"
    ELSE IF RatLeq(score, Rat(4, 1)) THEN "Easy"
    ELSE IF RatLeq(score, Rat(6, 1)) THEN "Medium"
    ELSE IF RatLeq(score, Rat(75, 10)) THEN "Hard"
    ELSE "Very Hard"

\* analyze_word_difficulty(word): the analysis it returns
WordDifficulty(word) ==
    LET factors == Factors(word)
        overall == OverallDifficulty(factors)
    IN  [word               |-> word.german,
         overall_difficulty |-> overall,
         difficulty_level   |-> DifficultyLevel(overall),
         factors            |-> factors]

\* entries of words.json: 'german' and 'english' are always present
DifficultyCatalog ==
    <<[german |-> <<"H", "a", "u", "s">>,
       english |-> <<"h", "o", "u", "s", "e">>,
       pronunciation |-> <<"stress1", "h", "a", "upsilon", "s">>,
       word_type |-> "noun",
       frequency |-> 1],
      [german |-> <<"H", "a", "n", "d">>,
       english |-> <<"h", "a", "n", "d">>,
       pronunciation |-> <<>>,
       word_type |-> "noun",
       frequency |-> 2],
      [german |-> <<"I", "n", "f", "o", "r", "m", "a", "t", "i", "o", "n">>,
       english |-> <<"i", "n", "f", "o", "r", "m", "a", "t", "i", "o", "n">>,
       word_type |-> "noun"],
      [german |-> <<"k", "o_uml", "n", "n", "e", "n">>,
       english |-> <<"c", "a", "n">>,
       pronunciation |-> <<>>,
       word_type |-> "verb",
       frequency |-> 3],
      [german |-> <<"a", "u", "f", "s", "t", "e", "h", "e", "n">>,
       english |-> <<"g", "e", "t", " ", "u", "p">>,
       pronunciation |-> <<"stress1", "a", "upsilon", "f", "stress2", "esh", "t", "e", "long", "schwa", "n">>,
       word_type |-> "verb",
       frequency |-> 6],
      [german |-> <<"s", "e", "i", "n">>,
       english |-> <<"b", "e">>,
       pronunciation |-> <<"z", "a", "small_i", "n">>,
       word_type |-> "verb",
       frequency |-> 1],
      [german |-> <<"f", "r", "e", "u", "n", "d", "l", "i", "c", "h">>,
       english |-> <<"f", "r", "i", "e", "n", "d", "l", "y">>,
       pronunciation |-> <<>>,
       word_type |-> "adjective",
       frequency |-> 4],
      [german |-> <<"S", "t", "r", "a", "eszett", "e">>,
       english |-> <<"s", "t", "r", "e", "e", "t">>,
       pronunciation |-> <<>>,
       word_type |-> "noun",
       frequency |-> 7],
      [german |-> <<"Q", "u", "a", "t", "s", "c", "h">>,
       english |-> <<"n", "o", "n", "s", "e", "n", "s", "e">>,
       pronunciation |-> <<>>,
       word_type |-> "noun",
       frequency |-> 9],
      [german |-> <<"E", "i">>,
       english |-> <<"e", "g", "g">>,
       pronunciation |-> <<"a", "small_i">>,
       frequency |-> 5],
      [german |-> <<"G", "e", "s", "c", "h", "w", "i", "n", "d", "i", "g", "k", "e", "i", "t", "s", "b", "e", "g", "r", "e", "n", "z", "u", "n", "g">>,
       english |-> <<"s", "p", "e", "e", "d", " ", "l", "i", "m", "i", "t">>,
       pronunciation |-> <<>>,
       word_type |-> "noun",
       frequency |-> 10],
      [german |-> <<"o", "f", "t">>,
       english |-> <<"o", "f", "t", "e", "n">>,
       pronunciation |-> <<"open_o", "f", "t">>,
       word_type |-> "adverb",
       frequency |-> 2],
      [german |-> <<"s", "c", "h", "o_uml", "n">>,
       english |-> <<"b", "e", "a", "u", "t", "i", "f", "u", "l">>,
       pronunciation |-> <<"esh", "o_slash", "long", "n">>,
       word_type |-> "adjective",
       frequency |-> 3],
      [german |-> <<"T", "a", "x", "i">>,
       english |-> <<"t", "a", "x", "i">>,
       pronunciation |-> <<>>,
       word_type |-> "noun",
       frequency |-> 4],
      [german |-> <<"E", "-", "M", "a", "i", "l">>,
       english |-> <<"e", "m", "a", "i", "l">>,
       pronunciation |-> <<>>,
       word_type |-> "noun",
       frequency |-> 8]>>

\* analyze_word_difficulty on the i-th entry; the analysis of the call before
\* is kept beside it
AnalyzeWordDifficulty(i) ==
    /\ last_call' = [op       |-> "difficulty",
                     entry    |-> i,
                     analysis |-> WordDifficulty(DifficultyCatalog[i]),
                     before   |-> IF last_call.op = "difficulty"
                                  THEN [entry |-> last_call.entry,
                                        analysis |-> last_call.analysis]
                                  ELSE [entry |-> 0]]
    /\ UNCHANGED <<sr_vars, streak_vars, disk, outbox, retention_rates, env_vars>>

NextDifficulty == \E i \in 1..Len(DifficultyCatalog) : AnalyzeWordDifficulty(i)

SpecDifficulty == Init /\ [][NextDifficulty]_vars

----------------------------------------------------------------------------
(* /stop and the scheduled runs: TelegramBotHandler.handle_stop
   (src/telegram_bot_handler.py), send_quizzes_to_all_users
   (src/multi_user_quiz.py), send_reports_to_all_users
   (src/multi_user_reports.py), send_daily_lessons_to_all *)

\* user_info.get('active', True)
ActiveByDefault(user_info) == user_info.active # "false"

\* the records send_quizzes_to_all_users and send_reports_to_all_users do not
\* skip; sends[chat_id] tells whether the run has something to send to the
\* user and the transport accepts it
RunOverUsers(op, sends) ==
    LET attempted == {active_users[i].chat_id :
                         i \in {k \in 1..Len(active_users) :
                                   ActiveByDefault(active_users[k])}}
    IN  /\ last_call' = [op |-> op, raised |-> FALSE, active |-> ActiveUsers,
                         stopped |-> StoppedUsers, attempted |-> attempted,
                         delivered |-> {u \in attempted : sends[u]}]
        /\ UNCHANGED <<sr_vars, streak_vars, disk, outbox, retention_rates, env_vars>>

\* MultiUserQuizBot.send_quizzes_to_all_users()
SendQuizzesToAllUsers(sends) == RunOverUsers("quizzes", sends)

\* MultiUserReportsBot.send_reports_to_all_users()
SendReportsToAllUsers(sends) == RunOverUsers("reports", sends)

NextStop ==
    \/ \E chat_id \in Users :
          \/ RegisterUser(chat_id)
          \/ ManagerRegisterUser(chat_id)
          \/ DeactivateUser(chat_id)
    \/ \E oks \in [Users -> BOOLEAN] : SendDailyLessonsToAll(oks)
    \/ \E sends \in [Users -> BOOLEAN] : SendQuizzesToAllUsers(sends)
    \/ \E sends \in [Users -> BOOLEAN] : SendReportsToAllUsers(sends)

SpecStop == Init /\ [][NextStop]_vars

\* C24 (as the specification states it): after a user's /stop was handled
\* (deactivate_user returned true and the registry was saved), no scheduled run
\* (daily lessons, quizzes and reviews, weekly reports) sends a message to that
\* user until the user is reactivated
C24_NoScheduledMessageAfterStop ==
    last_call.op \in {"batch", "quizzes", "reports"} =>
        last_call.delivered \cap last_call.stopped = {}

----------------------------------------------------------------------------
(* AdaptiveQuizSystem.select_words_for_quiz (src/adaptive_quiz_system.py) *)

\* (correct_answers / tests_taken) * 100, rounded down: the rate is only ever
\* compared with whole numbers
RetentionRate(word_retention) ==
    (word_retention.correct_answers * 100) \div word_retention.tests_taken

\* get_word_mastery_level(word_id) on the retention data rr
WordMastery(rr, word_id) ==
    IF word_id \notin DOMAIN rr THEN 1
    ELSE MasteryLevel([tests_taken    |-> rr[word_id].tests_taken,
                       retention_rate |-> RetentionRate(rr[word_id])])

\* is_word_due_for_review(word_id), with datetime.now() read as t
IsWordDueForReview(sr, word_id, t) ==
    word_id \in DOMAIN sr /\ sr[word_id].next_review <= t

\* get_recent_error_count(word_id): int(error_rate * min(tests_taken, 5))
RecentErrorCount(rr, word_id) ==
    IF word_id \notin DOMAIN rr THEN 0
    ELSE LET tests_taken == rr[word_id].tests_taken
             wrong       == tests_taken - rr[word_id].correct_answers
         IN  IF tests_taken = 0 THEN 0
             ELSE (wrong * Min(tests_taken, 5)) \div tests_taken

\* random.uniform(0, 1), in tenths: the ends and the middle of the interval
Jitters == {0, 5, 10}

\* all_learned: the learned words of the levels in the order of words_by_level
AllLearnedList ==
    words_by_level["A1"] \o words_by_level["A2"] \o words_by_level["B1"] \o
    words_by_level["B2"]

\* what the scoring loop reads of a word
Candidate(word_id) ==
    [mastery       |-> WordMastery(retention_rates, word_id),
     review_due    |-> IsWordDueForReview(spaced_repetition, word_id, now),
     recent_errors |-> RecentErrorCount(retention_rates, word_id)]

\* total_score of a candidate, in tenths
TotalScore(candidate, jitter) ==
    LET mastery_score == 6 - candidate.mastery
        review_score  == IF candidate.review_due THEN 0 ELSE 2
        error_score   == candidate.recent_errors * 5
    IN  mastery_score * 10 + review_score * 10 + error_score + jitter

\* word_scores.sort(key = score)[:word_count]: the sort is stable
SelectedWords(all_learned, scores, word_count) ==
    LET Before(i, j) == scores[i] < scores[j] \/ (scores[i] = scores[j] /\ i < j)
        rank(i)      == Cardinality({j \in 1..Len(all_learned) : Before(j, i)})
    IN  [k \in 1..Min(word_count, Len(all_learned)) |->
            all_learned[CHOOSE i \in 1..Len(all_learned) : rank(i) = k - 1]]

\* select_words_for_quiz(word_count); jitter[i] is the random term of the i-th
\* learned word
SelectWordsForQuiz(word_count, jitter) ==
    LET all_learned == AllLearnedList
        candidates  == [i \in 1..Len(all_learned) |-> Candidate(all_learned[i])]
        scores      == [i \in 1..Len(all_learned) |-> TotalScore(candidates[i], jitter[i])]
    IN  /\ last_call' = [op         |-> "select",
                         words      |-> all_learned,
                         candidates |-> candidates,
                         selected   |-> SelectedWords(all_learned, scores, word_count)]
        /\ UNCHANGED <<sr_vars, streak_vars, disk, outbox, retention_rates, env_vars>>

NextSelect ==
    \/ \E word_data \in Catalog : AddLearnedWord(word_data)
    \/ \E questions \in QuizQuestions :
          /\ SumReviews(DOMAIN spaced_repetition) + Len(questions) <= MaxQuizReviews
          /\ \E user_answers \in QuizAnswers(questions) :
                ProcessAdaptiveQuizResults(questions, user_answers)
    \/ Tick
    \/ \E word_count \in 1..Len(AllLearnedList) :
          \E jitter \in [1..Len(AllLearnedList) -> Jitters] :
             SelectWordsForQuiz(word_count, jitter)

SpecSelect == Init /\ [][NextSelect]_vars

\* C25 (as the specification states it): lower mastery means higher priority:
\* for two learned words with the same due-for-review status and the same
\* recent-error estimate, if one word's mastery is at least 2 levels lower than
\* the other's, then whenever the higher-mastery word is among the selected
\* words the lower-mastery word is selected too, for every jitter value
C25_LowerMasterySelectedFirst ==
    last_call.op = "select" =>
        \A i, j \in 1..Len(last_call.words) :
            (/\ last_call.candidates[i].review_due = last_call.candidates[j].review_due
             /\ last_call.candidates[i].recent_errors = last_call.candidates[j].recent_errors
             /\ last_call.candidates[i].mastery + 2 <= last_call.candidates[j].mastery
             /\ InList(last_call.words[j], last_call.selected)) =>
                InList(last_call.words[i], last_call.selected)

\* C25, what the code does instead: 6 - mastery is larger for the lower mastery
\* and the sort is ascending, so under the same conditions the higher-mastery
\* word is the one that is always selected first
C25_HigherMasterySelectedFirst ==
    last_call.op = "select" =>
        \A i, j \in 1..Len(last_call.words) :
            (/\ last_call.candidates[i].review_due = last_call.candidates[j].review_due
             /\ last_call.candidates[i].recent_errors = last_call.candidates[j].recent_errors
             /\ last_call.candidates[i].mastery + 2 <= last_call.candidates[j].mastery
             /\ InList(last_call.words[i], last_call.selected)) =>
                InList(last_call.words[j], last_call.selected)

----------------------------------------------------------------------------
(* EnhancedQuizSystem.process_enhanced_quiz_results
   (src/enhanced_quiz_system.py), for a learner whose UserProgress carries its
   LearningAnalytics: update_word_performance and _update_retention_rates work
   on the same analytics_data['retention_rates'] *)

\* the counters of word on the retention data rr, zeros for an untested word
CountersOf(rr, word) ==
    IF word \in DOMAIN rr THEN rr[word] ELSE [tests_taken |-> 0, correct_answers |-> 0]

\* the loop of _update_retention_rates from the i-th tested word on
RECURSIVE RetentionRatesUpdated(_, _, _, _)
RetentionRatesUpdated(rr, words_tested, correct_words, i) ==
    IF i > Len(words_tested) THEN rr
    ELSE LET word == words_tested[i]
             old  == CountersOf(rr, word)
             new  == [tests_taken     |-> old.tests_taken + 1,
                      correct_answers |-> old.correct_answers
                                            + (IF InList(word, correct_words) THEN 1 ELSE 0)]
         IN  RetentionRatesUpdated([w \in DOMAIN rr \cup {word} |->
                                       IF w = word THEN new ELSE rr[w]],
                                   words_tested, correct_words, i + 1)

\* whether detailed_results[i] has 'correct': True
AnsweredCorrectly(questions, user_answers, i) ==
    i <= Len(user_answers) /\ user_answers[i] = questions[i].correct_answer

\* the elements of list at the positions of keep, in order
RECURSIVE Filtered(_, _, _)
Filtered(list, keep, i) ==
    IF i > Len(list) THEN <<>>
    ELSE (IF i \in keep THEN <<list[i]>> ELSE <<>>) \o Filtered(list, keep, i + 1)

\* process_enhanced_quiz_results(quiz_data, user_answers): the adaptive
\* processing, then track_quiz_performance(enhanced_results)
ProcessEnhancedQuizResults(questions, user_answers) ==
    LET st            == AdaptiveProcessed(QuizStart, questions, user_answers, 1, now)
        words_tested  == [i \in 1..Len(questions) |-> questions[i].word_id]
        correct_words == Filtered(words_tested,
                                  {i \in 1..Len(questions) :
                                      AnsweredCorrectly(questions, user_answers, i)}, 1)
        \* "if not quiz_data or not quiz_data['questions']": the results carry no
        \* 'percentage' and reading it raises before anything is tracked
        tracked       == IF questions = <<>> THEN st.rr
                         ELSE RetentionRatesUpdated(st.rr, words_tested, correct_words, 1)
    IN  /\ spaced_repetition' = st.sr
        /\ review_history' = st.rh
        /\ retention_rates' = tracked
        /\ last_call' = [op |-> "enhanced_quiz", questions |-> questions,
                         user_answers |-> user_answers, pre_rates |-> retention_rates]
        /\ disk' = IF questions = <<>> THEN disk
                   ELSE DocumentOf([VocabularyFields EXCEPT !.spaced_repetition = st.sr],
                                   StreakFields, grace_period_expires)
        /\ UNCHANGED <<now, words_by_level, total_words_learned, streak_vars,
                       outbox, env_vars>>

NextEnhanced ==
    \/ \E word_data \in Catalog : AddLearnedWord(word_data)
    \/ \E questions \in QuizQuestions :
          /\ SumReviews(DOMAIN spaced_repetition) + Len(questions) <= MaxQuizReviews
          /\ \E user_answers \in QuizAnswers(questions) :
                ProcessEnhancedQuizResults(questions, user_answers)

SpecEnhanced == Init /\ [][NextEnhanced]_vars

\* C26 (as the specification states it): after process_enhanced_quiz_results
\* has processed a quiz of n questions on pairwise distinct words, each tested
\* word's tests_taken has increased by exactly 1, and correct_answers by 1
\* exactly when that question was answered correctly
C26_EachOutcomeCountedOnce ==
    (/\ last_call.op = "enhanced_quiz"
     /\ \A i, j \in 1..Len(last_call.questions) :
           last_call.questions[i].word_id = last_call.questions[j].word_id => i = j) =>
        \A i \in 1..Len(last_call.questions) :
            LET word   == last_call.questions[i].word_id
                before == CountersOf(last_call.pre_rates, word)
                after  == CountersOf(retention_rates, word)
            IN  /\ after.tests_taken = before.tests_taken + 1
                /\ after.correct_answers = before.correct_answers
                      + (IF AnsweredCorrectly(last_call.questions,
                                              last_call.user_answers, i) THEN 1 ELSE 0)

\* C26, what the code does instead: each outcome is counted twice, once by
\* update_word_performance and once by _update_retention_rates
C26_EachOutcomeCountedTwice ==
    (/\ last_call.op = "enhanced_quiz"
     /\ \A i, j \in 1..Len(last_call.questions) :
           last_call.questions[i].word_id = last_call.questions[j].word_id => i = j) =>
        \A i \in 1..Len(last_call.questions) :
            LET word   == last_call.questions[i].word_id
                before == CountersOf(last_call.pre_rates, word)
                after  == CountersOf(retention_rates, word)
            IN  /\ after.tests_taken = before.tests_taken + 2
                /\ after.correct_answers = before.correct_answers
                      + (IF AnsweredCorrectly(last_call.questions,
                                              last_call.user_answers, i) THEN 2 ELSE 0)

----------------------------------------------------------------------------
(* Streak updates: backdated lessons and the freeze credit balance
   (src/streak_manager.py) *)

\* C27 (as the specification states it): a streak update whose lesson date is
\* earlier than the record's last lesson date (negative day gap) does not consume
\* a freeze credit and does not increase current_streak
C27_BackdatedUpdateIsHarmless ==
    \A gap \in (-MaxDay)..(-1) :
        CalledWithGap(gap) =>
            /\ streak_freeze_used = streak_pre.fields.streak_freeze_used
            /\ streak_freeze_available >= streak_pre.fields.streak_freeze_available
            /\ daily_streak <= streak_pre.fields.daily_streak

\* C27, what the code does instead: a negative gap takes the broken-streak
\* branch, where days_diff <= 7 holds, so an available freeze credit is consumed
\* and the streak goes up by one; without a credit the streak restarts at 1
C27_BackdatedUpdateIsBrokenStreak ==
    \A gap \in (-MaxDay)..(-1) :
        CalledWithGap(gap) =>
            IF streak_pre.fields.streak_freeze_available >= 1
            THEN /\ streak_freeze_used = streak_pre.fields.streak_freeze_used + 1
                 /\ daily_streak = streak_pre.fields.daily_streak + 1
                 /\ streak_info.streak_recovered
            ELSE /\ streak_freeze_used = streak_pre.fields.streak_freeze_used
                 /\ daily_streak = 1
                 /\ streak_info.streak_broken

\* the freeze bonuses of the milestones of `list` from the i-th on, added up
RECURSIVE SumOfBonuses(_, _)
SumOfBonuses(list, i) ==
    IF i > Len(list) THEN 0
    ELSE milestone_rewards[list[i]].freeze_bonus + SumOfBonuses(list, i + 1)

\* C30: in every state reachable from a fresh record through streak updates,
\* streak_freeze_available >= 0 and streak_freeze_available + streak_freeze_used
\* = 1 + the sum of the freeze bonuses of all awarded milestones: credits are
\* created only by the initial grant and by milestone awards and destroyed only
\* by freeze use.
C30_FreezeCreditBalance ==
    /\ streak_freeze_available >= 0
    /\ streak_freeze_used >= 0
    /\ streak_freeze_available + streak_freeze_used
          = 1 + SumOfBonuses(streak_milestones, 1)
    /\ streak_pre.called =>
          \* one call: a credit goes only by a use, credits come only by an award
          /\ streak_freeze_used - streak_pre.fields.streak_freeze_used \in {0, 1}
          /\ streak_freeze_available - streak_pre.fields.streak_freeze_available
                = ReportedBonus
                  - (streak_freeze_used - streak_pre.fields.streak_freeze_used)

\* two credits were used, the milestones 7 and 14 brought one credit each, and
\* the one that is left is used by the call that reaches 14
C30_Witness ==
    /\ streak_pre.called
    /\ streak_milestones = <<7, 14>>
    /\ streak_info.milestone_reached = 14
    /\ streak_info.streak_recovered
    /\ streak_pre.fields.streak_freeze_available = 1
    /\ streak_freeze_used = 2
    /\ streak_freeze_available = 1

----------------------------------------------------------------------------
(* VocabularyManager.get_progressive_words on a catalog with words of every
   level (src/vocabulary_manager.py) *)

\* a words.json with words of the four levels, in file order
LevelledVocabulary ==
    <<[german |-> "Haus",            level |-> "A1", frequency |-> 1],
      [german |-> "Hund",            level |-> "A1", frequency |-> 2],
      [german |-> "gehen",           level |-> "A2", frequency |-> 1],
      [german |-> "Zeitung",         level |-> "A2", frequency |-> 2],
      [german |-> "Erfahrung",       level |-> "B1", frequency |-> 1],
      [german |-> "Herausforderung", level |-> "B2", frequency |-> 1],
      [german |-> "Nachhaltigkeit",  level |-> "B2", frequency |-> 2]>>

\* the catalog entries of one level
EntriesOfLevel(level) ==
    {LevelledVocabulary[i] : i \in {k \in 1..Len(LevelledVocabulary) :
                                      LevelledVocabulary[k].level = level}}

\* learned_words.extend(level_data['learned']) over the levels of the record
LearnedWords ==
    UNION {{words_by_level[l][i] : i \in 1..Len(words_by_level[l])} : l \in Levels}

\* vocab_manager.get_progressive_words(user_level, count, learned_words); the
\* call and the list it returned are kept in last_call
GetProgressiveWords(user_level, count) ==
    \E selected_words \in ProgressiveWordsIn(LevelledVocabulary, user_level, count,
                                             LearnedWords) :
        /\ last_call' = [op            |-> "progressive",
                         user_level    |-> user_level,
                         count         |-> count,
                         learned_words |-> LearnedWords,
                         words         |-> selected_words]
        /\ UNCHANGED <<sr_vars, streak_vars, disk, outbox, retention_rates, env_vars>>

NextProgressive ==
    \/ \E i \in 1..Len(LevelledVocabulary) :
          AddLearnedWord(WordData(LevelledVocabulary[i]))
    \/ \E user_level \in Levels : GetProgressiveWords(user_level, LessonSize)

SpecProgressive == Init /\ [][NextProgressive]_vars

\* the last call was get_progressive_words(user_level, LessonSize, ...)
ProgressiveCall(user_level) ==
    /\ last_call.op = "progressive"
    /\ last_call.user_level = user_level
    /\ last_call.count = LessonSize

\* the list has at most `count` entries, pairwise distinct and none learned
WellFormedSelection ==
    LET words == last_call.words
    IN  /\ Len(words) <= last_call.count
        /\ \A i, j \in 1..Len(words) : i # j => words[i].german # words[j].german
        /\ \A i \in 1..Len(words) : words[i].german \notin last_call.learned_words

\* the catalog still has an unlearned word of the level
UnlearnedLeft(level) ==
    \E w \in EntriesOfLevel(level) : w.german \notin last_call.learned_words

\* the returned list has a word of the level
HasWordOfLevel(level) ==
    \E i \in 1..Len(last_call.words) : last_call.words[i].level = level

\* C28 (as the specification states it): for a user at level L in {A2, B1, B2}
\* and the default request of 3 daily words, progressive selection returns at
\* most 3 pairwise distinct unlearned words and includes at least one word of
\* level L whenever the catalog still contains an unlearned word of level L
C28_CurrentLevelWordIncluded ==
    \A level \in {"A2", "B1", "B2"} :
        ProgressiveCall(level) =>
            /\ WellFormedSelection
            /\ UnlearnedLeft(level) => HasWordOfLevel(level)

\* C28, the part the code keeps: the list is well formed at every level, and at
\* A1, A2 and B1 a word of the user's level is included when one is left
C28_IncludedBelowB2 ==
    \A level \in Levels :
        ProgressiveCall(level) =>
            /\ WellFormedSelection
            /\ (level # "B2" /\ UnlearnedLeft(level)) => HasWordOfLevel(level)

\* C28, what the code does at B2: each of the four levels gets max(1, int(3 *
\* ratio)) = 1 word in the order A1, A2, B1, B2 and the list is cut to the first
\* 3, so while A1, A2 and B1 each have an unlearned word no B2 word is returned
C28_B2CrowdedOut ==
    (/\ ProgressiveCall("B2")
     /\ UnlearnedLeft("A1") /\ UnlearnedLeft("A2") /\ UnlearnedLeft("B1"))
        => ~HasWordOfLevel("B2")

----------------------------------------------------------------------------
(* The two lesson delivery paths on one learner document
   (src/multi_user_bot.py, src/send_word.py) *)

\* the two paths are followed until the transport accepted MaxDeliveries messages
MaxDeliveries == 2

NextDelivery ==
    \/ /\ Len(outbox) < MaxDeliveries
       /\ \E ok, ok_streak \in BOOLEAN : SendDailyLessonToUser(ok, ok_streak)
    \/ /\ Len(outbox) < MaxDeliveries
       /\ \E ok \in BOOLEAN : Run(ok)
    \/ LessonTick

SpecDelivery == Init /\ [][NextDelivery]_vars

\* the transport accepted a lesson message that contains the word
AcceptedInLesson(word_id) ==
    \E i \in 1..Len(outbox) :
        /\ outbox[i].kind = "lesson"
        /\ \E k \in 1..Len(outbox[i].words) : outbox[i].words[k] = word_id

\* C29: in both lesson delivery paths a word is in the learned set and has a
\* review schedule only after a lesson message containing it was accepted by the
\* transport; if the lesson send fails, no word of that lesson is added to the
\* learned set or scheduled, neither in the persisted document nor in the
\* record the run holds in memory.
C29_LearnedOnlyAfterAcceptedSend ==
    LET d == LoadProgress(disk)
    IN  /\ \A w \in AllLearned(d) \cup DOMAIN d.spaced_repetition : AcceptedInLesson(w)
        /\ last_call.op = "lesson_failed" =>
              /\ VocabularyOf(d) = VocabularyOf(last_call.pre_document)
              /\ Len(outbox) = last_call.sent_before
        /\ (last_call.op = "run" /\ ~last_call.success) =>
              /\ VocabularyOf(d) = VocabularyOf(last_call.loaded)
              /\ VocabularyOf(last_call.data) = VocabularyOf(last_call.loaded)
        /\ (last_call.op = "run" /\ last_call.success) =>
              \A w \in AllLearned(last_call.data) : AcceptedInLesson(w)

\* a lesson was accepted and its words are learned; the transport then refuses
\* the lesson of a run that had new words to send
C29_Witness ==
    /\ last_call.op = "run"
    /\ last_call.send_failed
    /\ Len(outbox) >= 1
    /\ AllLearned(LoadProgress(disk)) # {}
    /\ Cardinality(AllLearned(LoadProgress(disk))) < Len(Vocabulary)

====
